---- MODULE Spec2Model ----
(***************************************************************************)
(* Routing / failover engine, error classification and feature resolver   *)
(* of the multi-provider LLM gateway.                                      *)
(*                                                                         *)
(* Strings that the code inspects character by character (error messages) *)
(* are sequences of one-character strings.  Array indices are 1-based     *)
(* here and 0-based in the source.                                         *)
(***************************************************************************)
EXTENDS Integers, Sequences, FiniteSets, TLC

VARIABLES
    pc,               \* router: "idle" | "loop" | "exhausted" | "done"
    fn,               \* router: which entry point is running
    providerOrder,    \* router: the ordered candidate list
    i,                \* router: loop index (1-based)
    failoverFrom,     \* generateWithProvider / generateWithVision local
    previousProvider, \* withFailover local
    lastError,        \* generateWithProvider / generateWithVision local
    errors,           \* withFailover local: ProviderError[]
    usage,            \* rows of the lLMUsage table written by this request
    calls,            \* generation calls issued to vendors (history)
    result,           \* what the request returned or raised
    trackFault,       \* history: some usage-tracking write was rejected
    cpc,              \* classifier: "idle" | "done"
    clsMessage,       \* classifier: the error message under classification
    clsResult,        \* classifier: failover.ts isRetryableError
    clsResultOllama,  \* classifier: providers/ollama.ts isRetryableError
    dbProviders,      \* resolver: provider table, id -> isEnabled
    dbModels,         \* resolver: ids of the rows of the model table
    dbMappings,       \* resolver: featureMapping rows, in insertion order
    reqs,             \* resolver: the requirements of the running call
    mappings,         \* resolver: sortedMappings of the running call
    rpc,              \* resolver: "idle" | "ready" | "rules" | "done"
    ruleIdx,          \* resolver: position in sortedMappings (1-based)
    results,          \* resolver: accumulated candidates
    resolved,         \* resolver: value returned by resolveWithFallback
    regDb,            \* registry: provider table with its models, id -> row
    regCache,         \* registry: ProviderRegistry.cache, id -> entry
    regLast,          \* registry: the last operation and what it returned
    budgetRow,        \* budget: the lLMBudget row of the period under check
    budgetLog,        \* budget: history of the checks since the last reset
    budgetLast,       \* budget: usage and budget read by the last check
    aggNow,           \* aggregation: the current day
    aggUsage,         \* aggregation: rows of the lLMUsage table
    aggMonthly,       \* aggregation: lLMUsageMonthly, key -> totalRequests
    aggPurged,        \* aggregation: the rows deleted by cleanups so far
    optInput,         \* optimizer: the enabledProviders argument
    optFeature,       \* optimizer: the featureType argument ("" before a call)
    optInputAfter,    \* optimizer: the caller's array after the call
    optResult,        \* optimizer: smart-routing.ts optimizeProviderOrder
    optResultRouter,  \* optimizer: router/smart-routing.ts optimizeProviderOrder
    asyncDb,          \* concurrent registry: provider table, id -> row
    asyncCache,       \* concurrent registry: ProviderRegistry.cache
    readerPc,         \* concurrent registry: position of the get / list task
    readerSnap,       \* concurrent registry: rows its query returned
    writerPc,         \* concurrent registry: position of the mutating task
    writerSnap,       \* concurrent registry: row read by update's own get
    writerReturned,   \* concurrent registry: what the last update returned
    refusalPc,        \* refusal detection: "idle" | "done"
    refusalText,      \* refusal detection: the text given to isRefusalResponse
    refusalResult,    \* refusal detection: what isRefusalResponse returned
    mapRows,          \* concurrent mappings: featureMapping rows of one feature
    mapTask,          \* concurrent mappings: each call's position, input, lookup
    checkRow,         \* concurrent budget checks: the lLMBudget row of the period
    checkTask,        \* concurrent budget checks: each call's position and locals
    checkAlerts,      \* concurrent budget checks: alerts returned since the reset
    filterPc,         \* budget filter: "idle" | "done"
    filterInput,      \* budget filter: the enabledProviders argument
    filterSummary,    \* budget filter: what getBudgetSummary returned
    filterResult,     \* budget filter: what filterByBudget returned
    decisionRows,     \* routing decision: the lLMBudget row of each period
    decisionCalls,    \* routing decision: number of getSmartRoutingDecision calls
    decisionLast,     \* routing decision: the last call's checks and its result
    adapterInstance,  \* adapters: the cached OpenAIAdapter instance of the factory
    adapterCalls,     \* adapters: number of createLanguageModel calls made
    adapterLast       \* adapters: the last call's provider and what it built

routerVars == <<pc, fn, providerOrder, i, failoverFrom, previousProvider,
                lastError, errors, usage, calls, result, trackFault>>
classifierVars == <<cpc, clsMessage, clsResult, clsResultOllama>>
resolverVars == <<dbProviders, dbModels, dbMappings, reqs, mappings, rpc, ruleIdx,
                  results, resolved>>
registryVars == <<regDb, regCache, regLast>>
budgetVars == <<budgetRow, budgetLog, budgetLast>>
aggregationVars == <<aggNow, aggUsage, aggMonthly, aggPurged>>
optimizerVars == <<optInput, optFeature, optInputAfter, optResult, optResultRouter>>
asyncVars == <<asyncDb, asyncCache, readerPc, readerSnap, writerPc, writerSnap,
               writerReturned>>
refusalVars == <<refusalPc, refusalText, refusalResult>>
mappingVars == <<mapRows, mapTask>>
checkVars == <<checkRow, checkTask, checkAlerts>>
filterVars == <<filterPc, filterInput, filterSummary, filterResult>>
decisionVars == <<decisionRows, decisionCalls, decisionLast>>
adapterVars == <<adapterInstance, adapterCalls, adapterLast>>
lateVars == <<asyncVars, refusalVars, mappingVars, checkVars, filterVars, decisionVars,
              adapterVars>>
adminVars == <<registryVars, budgetVars, aggregationVars, optimizerVars, lateVars>>
exceptRegistry == <<routerVars, classifierVars, resolverVars, budgetVars, aggregationVars,
                    optimizerVars, lateVars>>
exceptBudget == <<routerVars, classifierVars, resolverVars, registryVars, aggregationVars,
                  optimizerVars, lateVars>>
exceptAggregation == <<routerVars, classifierVars, resolverVars, registryVars, budgetVars,
                       optimizerVars, lateVars>>
exceptOptimizer == <<routerVars, classifierVars, resolverVars, registryVars, budgetVars,
                     aggregationVars, lateVars>>
coreVars == <<routerVars, classifierVars, resolverVars, registryVars, budgetVars,
              aggregationVars, optimizerVars>>
exceptAsync == <<coreVars, refusalVars, mappingVars, checkVars, filterVars, decisionVars,
    adapterVars>>
exceptRefusal == <<coreVars, asyncVars, mappingVars, checkVars, filterVars, decisionVars,
    adapterVars>>
exceptMapping == <<coreVars, asyncVars, refusalVars, checkVars, filterVars, decisionVars,
    adapterVars>>
exceptCheck == <<coreVars, asyncVars, refusalVars, mappingVars, filterVars, decisionVars,
    adapterVars>>
exceptFilter == <<coreVars, asyncVars, refusalVars, mappingVars, checkVars, decisionVars,
    adapterVars>>
exceptDecision == <<coreVars, asyncVars, refusalVars, mappingVars, checkVars, filterVars,
    adapterVars>>
exceptAdapter == <<coreVars, asyncVars, refusalVars, mappingVars, checkVars, filterVars,
                   decisionVars>>
vars == <<routerVars, classifierVars, resolverVars, adminVars>>

(***************************************************************************)
(* Bounds of the model.                                                    *)
(***************************************************************************)
MaxCandidates == 3
MaxFragments == 2

(***************************************************************************)
(* Character-level strings.                                                *)
(***************************************************************************)
UPPER == <<"A", "B", "C", "D", "E", "F", "G", "H", "I", "J", "K", "L", "M",
           "N", "O", "P", "Q", "R", "S", "T", "U", "V", "W", "X", "Y", "Z">>
LOWER == <<"a", "b", "c", "d", "e", "f", "g", "h", "i", "j", "k", "l", "m",
           "n", "o", "p", "q", "r", "s", "t", "u", "v", "w", "x", "y", "z">>

ToLowerChar(c) ==
    IF \E k \in 1..Len(UPPER) : UPPER[k] = c
    THEN LOWER[CHOOSE k \in 1..Len(UPPER) : UPPER[k] = c]
    ELSE c

ToLowerCase(s) == [k \in 1..Len(s) |-> ToLowerChar(s[k])]

Includes(s, sub) ==
    \E k \in 0..(Len(s) - Len(sub)) : \A j \in 1..Len(sub) : s[k + j] = sub[j]

RATE_LIMIT == <<"r", "a", "t", "e", " ", "l", "i", "m", "i", "t">>
C429 == <<"4", "2", "9">>
C503 == <<"5", "0", "3">>
SERVICE_UNAVAILABLE == <<"s", "e", "r", "v", "i", "c", "e", " ", "u", "n", "a", "v", "a", "i", "l", "a", "b", "l", "e">>
NETWORK == <<"n", "e", "t", "w", "o", "r", "k">>
TIMEOUT == <<"t", "i", "m", "e", "o", "u", "t">>
ECONNREFUSED == <<"e", "c", "o", "n", "n", "r", "e", "f", "u", "s", "e", "d">>
ENOTFOUND == <<"e", "n", "o", "t", "f", "o", "u", "n", "d">>
FETCH_FAILED == <<"f", "e", "t", "c", "h", " ", "f", "a", "i", "l", "e", "d">>
C500 == <<"5", "0", "0">>
C502 == <<"5", "0", "2">>
C504 == <<"5", "0", "4">>
C400 == <<"4", "0", "0">>
C401 == <<"4", "0", "1">>
C403 == <<"4", "0", "3">>

(***************************************************************************)
(* failover.ts isRetryableError: the checks in the order of the source.    *)
(***************************************************************************)
IsRetryableError_ClientFirst(rawMessage) ==
    LET message == ToLowerCase(rawMessage)
    IN  IF Includes(message, C400) \/ Includes(message, C401) \/ Includes(message, C403)
        THEN FALSE
        ELSE TRUE

IsRetryableError(rawMessage) ==
    LET message == ToLowerCase(rawMessage)
    IN  IF Includes(message, RATE_LIMIT) \/ Includes(message, C429) THEN TRUE
        ELSE IF Includes(message, C503) \/ Includes(message, SERVICE_UNAVAILABLE) THEN TRUE
        ELSE IF \/ Includes(message, NETWORK)
                \/ Includes(message, TIMEOUT)
                \/ Includes(message, ECONNREFUSED)
                \/ Includes(message, ENOTFOUND)
                \/ Includes(message, FETCH_FAILED) THEN TRUE
        ELSE IF Includes(message, C500) \/ Includes(message, C502) \/ Includes(message, C504)
             THEN TRUE
        ELSE IF Includes(message, C400) \/ Includes(message, C401) \/ Includes(message, C403)
             THEN FALSE
        ELSE TRUE

(* providers/ollama.ts carries its own copy of the classifier. *)
OllamaIsRetryableError(rawMessage) ==
    LET message == ToLowerCase(rawMessage)
    IN  IF Includes(message, RATE_LIMIT) \/ Includes(message, C429) THEN TRUE
        ELSE IF Includes(message, C503) \/ Includes(message, SERVICE_UNAVAILABLE) THEN TRUE
        ELSE IF \/ Includes(message, NETWORK)
                \/ Includes(message, TIMEOUT)
                \/ Includes(message, ECONNREFUSED)
                \/ Includes(message, ENOTFOUND)
                \/ Includes(message, FETCH_FAILED) THEN TRUE
        ELSE IF Includes(message, C500) \/ Includes(message, C502) \/ Includes(message, C504)
             THEN TRUE
        ELSE IF Includes(message, C400) \/ Includes(message, C401) \/ Includes(message, C403)
             THEN FALSE
        ELSE TRUE

(***************************************************************************)
(* Error messages that occur in the router.                                *)
(***************************************************************************)
Msg503 == <<"5", "0", "3", " ", "S", "e", "r", "v", "i", "c", "e", " ", "U", "n", "a", "v", "a", "i", "l", "a", "b", "l", "e">>
Msg401 == <<"4", "0", "1", " ", "U", "n", "a", "u", "t", "h", "o", "r", "i", "z", "e", "d">>
MsgInvalidFormat == <<"I", "n", "v", "a", "l", "i", "d", " ", "e", "n", "c", "r", "y", "p", "t", "e", "d", " ", "d", "a", "t", "a", " ", "f", "o", "r", "m", "a", "t">>
MsgAuthTag == <<"U", "n", "s", "u", "p", "p", "o", "r", "t", "e", "d", " ", "s", "t", "a", "t", "e", " ", "o", "r", " ", "u", "n", "a", "b", "l", "e", " ", "t", "o", " ", "a", "u", "t", "h", "e", "n", "t", "i", "c", "a", "t", "e", " ", "d", "a", "t", "a">>
MsgDbWrite == <<"C", "a", "n", "'", "t", " ", "r", "e", "a", "c", "h", " ", "d", "a", "t", "a", "b", "a", "s", "e", " ", "s", "e", "r", "v", "e", "r">>
MsgRefused == <<"M", "o", "d", "e", "l", " ", "r", "e", "f", "u", "s", "e", "d">>
MsgUnknown == <<"U", "n", "k", "n", "o", "w", "n", " ", "e", "r", "r", "o", "r">>
MsgNoProviders == <<"N", "o", " ", "p", "r", "o", "v", "i", "d", "e", "r", "s">>
MsgNotFound == <<"n", "o", "t", " ", "f", "o", "u", "n", "d">>
MsgNoModels == <<"n", "o", " ", "m", "o", "d", "e", "l", "s">>

Undefined == "undefined"
Null == "null"
FeatureType == "learning_analysis"

NullError == [set |-> FALSE, message |-> <<>>]
NewError(msg) == [set |-> TRUE, message |-> msg]

(***************************************************************************)
(* router-utils: refusal detection.  A text is its raw length, the number  *)
(* of surrounding white-space characters that trim() removes, and whether  *)
(* one of REFUSAL_PATTERNS matches at the start of the trimmed text.       *)
(***************************************************************************)
REFUSAL_MAX_LENGTH == 500

Trim(text) == [text EXCEPT !.len = text.len - text.ws, !.ws = 0]

REFUSAL_PATTERNS(trimmed) == trimmed.ws = 0 /\ trimmed.refusal

IsRefusalResponse_NoLimit(text) == REFUSAL_PATTERNS(Trim(text))

IsRefusalResponse(text) ==
    LET trimmed == Trim(text)
    IN  IF trimmed.len > REFUSAL_MAX_LENGTH THEN FALSE
        ELSE REFUSAL_PATTERNS(trimmed)

TextAnswer == [len |-> 1200, ws |-> 0, refusal |-> FALSE]
TextRefusal == [len |-> 42, ws |-> 2, refusal |-> TRUE]
TextLongSorry == [len |-> 501, ws |-> 0, refusal |-> TRUE]
NoText == [len |-> 0, ws |-> 0, refusal |-> FALSE]
Texts == {TextAnswer, TextRefusal, TextLongSorry}

(***************************************************************************)
(* encryption: decryptApiKey.  A stored credential is the list of its      *)
(* colon-separated segments; the GCM tag "tag" is the one that verifies.   *)
(***************************************************************************)
KeyValid == <<"iv", "tag", "ct">>
KeyTwoSegments == <<"iv", "tag">>
KeyForged == <<"iv", "bad", "ct">>

Returned(v) == [threw |-> FALSE, value |-> v, message |-> <<>>]
Threw(msg) == [threw |-> TRUE, value |-> FALSE, message |-> msg]

DecryptApiKey(encryptedData) ==
    IF \/ Len(encryptedData) < 3
       \/ encryptedData[1] = "" \/ encryptedData[2] = "" \/ encryptedData[3] = ""
    THEN Threw(MsgInvalidFormat)
    ELSE IF encryptedData[2] # "tag" THEN Threw(MsgAuthTag)
    ELSE Returned(TRUE)

(***************************************************************************)
(* router-utils: setupProviderEnv and createLanguageModel, as far as they  *)
(* decide whether a candidate is attempted.  apiKeyEncrypted = <<>> is     *)
(* the null credential.                                                    *)
(***************************************************************************)
SetupProviderEnv(provider) ==
    IF provider.providerType = "ollama" THEN Returned(TRUE)
    ELSE IF ~provider.isEnabled THEN Returned(FALSE)
    ELSE IF provider.apiKeyEncrypted = <<>> THEN Returned(FALSE)
    ELSE LET apiKey == DecryptApiKey(provider.apiKeyEncrypted)
         IN  IF apiKey.threw THEN apiKey ELSE Returned(TRUE)

CreateLanguageModel(provider) ==
    IF provider.apiKeyEncrypted # <<>>
    THEN LET apiKey == DecryptApiKey(provider.apiKeyEncrypted)
         IN  IF apiKey.threw THEN apiKey ELSE Returned(TRUE)
    ELSE Returned(TRUE)

(***************************************************************************)
(* Candidates: (provider, model) pairs as the resolver hands them over.    *)
(***************************************************************************)
Cand(type, enabled, key, model, vision) ==
    [providerType |-> type, isEnabled |-> enabled, apiKeyEncrypted |-> key,
     modelId |-> model, supportsVision |-> vision]

CandidatePool ==
    { Cand("ollama", TRUE, <<>>, "llama3", FALSE),
      Cand("openai", TRUE, KeyValid, "gpt-4o", TRUE),
      Cand("anthropic", TRUE, KeyValid, "claude-sonnet", TRUE),
      Cand("google", TRUE, <<>>, "gemini-pro", TRUE),
      Cand("mistral", TRUE, KeyTwoSegments, "mistral-large", TRUE),
      Cand("xai", FALSE, KeyValid, "grok", TRUE) }

(* resolveWithFallback returns each (provider, model) pair at most once. *)
CandidateLists ==
    UNION { { order \in [1..n -> CandidatePool] :
                \A a, b \in 1..n : a # b => order[a] # order[b] } :
            n \in 0..MaxCandidates }

GenText(t) == [kind |-> "text", text |-> t, message |-> <<>>]
GenThrow(m) == [kind |-> "throw", text |-> NoText, message |-> m]
GenOutcomes == {GenText(t) : t \in Texts} \cup {GenThrow(Msg503), GenThrow(Msg401)}

(***************************************************************************)
(* usage-tracker: the rows trackUsage and trackFailure create.  The field  *)
(* attempt is bookkeeping: the list position of the candidate.             *)
(***************************************************************************)
TrackUsage(provider, modelId, from, attempt) ==
    [provider |-> provider, modelId |-> modelId, success |-> TRUE,
     errorMessage |-> <<>>, failoverFrom |-> from, attempt |-> attempt]

TrackFailure_AsSuccess(provider, modelId, errorMessage, attempt) ==
    [provider |-> provider, modelId |-> modelId, success |-> TRUE,
     errorMessage |-> errorMessage, failoverFrom |-> Undefined, attempt |-> attempt]

TrackFailure(provider, modelId, errorMessage, attempt) ==
    [provider |-> provider, modelId |-> modelId, success |-> FALSE,
     errorMessage |-> errorMessage, failoverFrom |-> Undefined, attempt |-> attempt]

(***************************************************************************)
(* What a request returns or raises.                                       *)
(***************************************************************************)
NoResult == [kind |-> "none"]

GenerateResult(cand, idx, text, isFailover, from) ==
    [kind |-> "result", provider |-> cand.providerType, model |-> cand.modelId,
     index |-> idx, text |-> text, wasFailover |-> isFailover,
     failoverFrom |-> IF isFailover THEN from ELSE Undefined]

PlainError(msg) == [kind |-> "error", type |-> "Error", message |-> msg]

DbError == [kind |-> "error", type |-> "DbError", message |-> MsgDbWrite]

FailoverError(featureType, errs) ==
    [kind |-> "error", type |-> "FailoverError", featureType |-> featureType,
     errors |-> errs, totalAttempts |-> Len(errs)]

Call(idx, provider, outcome, gen) ==
    [idx |-> idx, provider |-> provider, outcome |-> outcome,
     message |-> gen.message, text |-> gen.text]

(***************************************************************************)
(* Router: pieces of the loop body shared by generateWithProvider and     *)
(* generateWithVision.                                                     *)
(***************************************************************************)

(* failoverFrom as assigned at the top of iteration idx. *)
FailoverFromAt_FirstCandidate(order, idx, current) ==
    IF idx > 1 THEN order[1].providerType ELSE current

FailoverFromAt(order, idx, current) ==
    IF idx > 1 THEN order[idx - 1].providerType ELSE current

(* What the loop does with a text that generateText returned. *)
RefusalDisposition_Accept(text) == "return"

RefusalDisposition(text) ==
    IF IsRefusalResponse(text) THEN "continue" ELSE "return"

Skip ==
    /\ i' = i + 1
    /\ UNCHANGED <<pc, lastError, usage, calls, result, trackFault>>

(* The catch block: trackFailure is awaited, then the error is classified. *)
(* fault: the error being handled is itself a rejected trackUsage write.   *)
Catch(cand, msg, failOk, fault) ==
    IF failOk
    THEN /\ usage' = Append(usage, TrackFailure(cand.providerType, cand.modelId, msg, i))
         /\ lastError' = NewError(msg)
         /\ trackFault' = (trackFault \/ fault)
         /\ result' = result
         /\ IF ~IsRetryableError(msg)
            THEN pc' = "exhausted" /\ i' = i
            ELSE pc' = "loop" /\ i' = i + 1
    ELSE /\ result' = DbError
         /\ pc' = "done"
         /\ trackFault' = TRUE
         /\ UNCHANGED <<usage, lastError, i>>

RouterIteration(vision, gen, trackOk, failOk) ==
    LET cand == providerOrder[i]
        isFailover == i > 1
        from == FailoverFromAt(providerOrder, i, failoverFrom)
        isReady == SetupProviderEnv(cand)
        languageModel == CreateLanguageModel(cand)
    IN  /\ failoverFrom' = from
        /\ IF isReady.threw
           THEN Catch(cand, isReady.message, failOk, FALSE) /\ calls' = calls
           ELSE IF ~isReady.value
           THEN Skip
           ELSE IF vision /\ ~cand.supportsVision
           THEN Skip
           ELSE IF languageModel.threw
           THEN Catch(cand, languageModel.message, failOk, FALSE) /\ calls' = calls
           ELSE IF gen.kind = "throw"
           THEN /\ calls' = Append(calls, Call(i, cand.providerType, "throw", gen))
                /\ Catch(cand, gen.message, failOk, FALSE)
           ELSE IF RefusalDisposition(gen.text) = "continue"
           THEN /\ calls' = Append(calls, Call(i, cand.providerType, "refusal", gen))
                /\ lastError' = NewError(MsgRefused)
                /\ i' = i + 1
                /\ UNCHANGED <<pc, usage, result, trackFault>>
           ELSE /\ calls' = Append(calls, Call(i, cand.providerType, "ok", gen))
                /\ IF trackOk
                   THEN /\ usage' = Append(usage,
                               TrackUsage(cand.providerType, cand.modelId,
                                          IF isFailover THEN from ELSE Undefined, i))
                        /\ result' = GenerateResult(cand, i, gen.text, isFailover, from)
                        /\ pc' = "done"
                        /\ UNCHANGED <<lastError, i, trackFault>>
                   ELSE Catch(cand, MsgDbWrite, failOk, TRUE)

LoopEnded == pc = "exhausted" \/ (pc = "loop" /\ i > Len(providerOrder))

StartLoop(name, order) ==
    /\ fn' = name
    /\ providerOrder' = order
    /\ pc' = "loop"
    /\ i' = 1
    /\ UNCHANGED <<failoverFrom, previousProvider, lastError, errors, usage,
                   calls, result, trackFault>>

StartThrow(name, order, msg) ==
    /\ fn' = name
    /\ providerOrder' = order
    /\ pc' = "done"
    /\ result' = PlainError(msg)
    /\ UNCHANGED <<i, failoverFrom, previousProvider, lastError, errors, usage,
                   calls, trackFault>>

(***************************************************************************)
(* generateWithProvider                                                    *)
(***************************************************************************)
GenerateWithProviderStart ==
    /\ pc = "idle"
    /\ \E order \in CandidateLists :
          IF order = <<>>
          THEN StartThrow("generateWithProvider", order, MsgNoProviders)
          ELSE StartLoop("generateWithProvider", order)
    /\ UNCHANGED <<classifierVars, resolverVars, adminVars>>

(* options.providerId given: the provider row is read with its models. *)
GenerateWithProviderPinned ==
    /\ pc = "idle"
    /\ \E found \in BOOLEAN, hasModels \in BOOLEAN, cand \in CandidatePool :
          IF ~found \/ ~cand.isEnabled
          THEN StartThrow("generateWithProvider", <<>>, MsgNotFound)
          ELSE IF ~hasModels
          THEN StartThrow("generateWithProvider", <<>>, MsgNoModels)
          ELSE StartLoop("generateWithProvider", <<cand>>)
    /\ UNCHANGED <<classifierVars, resolverVars, adminVars>>

GenerateWithProviderIter ==
    /\ pc = "loop" /\ fn = "generateWithProvider" /\ i <= Len(providerOrder)
    /\ \E gen \in GenOutcomes, trackOk \in BOOLEAN, failOk \in BOOLEAN :
          RouterIteration(FALSE, gen, trackOk, failOk)
    /\ UNCHANGED <<fn, providerOrder, previousProvider, errors>>
    /\ UNCHANGED <<classifierVars, resolverVars, adminVars>>

GenerateWithProviderThrow ==
    /\ fn = "generateWithProvider" /\ LoopEnded
    /\ result' = PlainError(IF lastError.set THEN lastError.message ELSE MsgUnknown)
    /\ pc' = "done"
    /\ UNCHANGED <<fn, providerOrder, i, failoverFrom, previousProvider, lastError,
                   errors, usage, calls, trackFault>>
    /\ UNCHANGED <<classifierVars, resolverVars, adminVars>>

(***************************************************************************)
(* generateWithVision                                                      *)
(***************************************************************************)
GenerateWithVisionStart ==
    /\ pc = "idle"
    /\ \E order \in CandidateLists :
          IF order = <<>>
          THEN StartThrow("generateWithVision", order, MsgNoProviders)
          ELSE StartLoop("generateWithVision", order)
    /\ UNCHANGED <<classifierVars, resolverVars, adminVars>>

GenerateWithVisionIter ==
    /\ pc = "loop" /\ fn = "generateWithVision" /\ i <= Len(providerOrder)
    /\ \E gen \in GenOutcomes, trackOk \in BOOLEAN, failOk \in BOOLEAN :
          RouterIteration(TRUE, gen, trackOk, failOk)
    /\ UNCHANGED <<fn, providerOrder, previousProvider, errors>>
    /\ UNCHANGED <<classifierVars, resolverVars, adminVars>>

GenerateWithVisionThrow ==
    /\ fn = "generateWithVision" /\ LoopEnded
    /\ result' = FailoverError(FeatureType,
          << [provider |-> providerOrder[Len(providerOrder)].providerType,
              error |-> IF lastError.set THEN lastError.message ELSE MsgUnknown] >>)
    /\ pc' = "done"
    /\ UNCHANGED <<fn, providerOrder, i, failoverFrom, previousProvider, lastError,
                   errors, usage, calls, trackFault>>
    /\ UNCHANGED <<classifierVars, resolverVars, adminVars>>

(***************************************************************************)
(* withFailover: fn(provider, attempt) is the caller's function; it either *)
(* resolves with data or throws.  trackFailure rejections are swallowed.   *)
(***************************************************************************)
WithFailoverStart ==
    /\ pc = "idle"
    /\ \E order \in CandidateLists : StartLoop("withFailover", order)
    /\ UNCHANGED <<classifierVars, resolverVars, adminVars>>

WithFailoverIter ==
    /\ pc = "loop" /\ fn = "withFailover" /\ i <= Len(providerOrder)
    /\ \E gen \in GenOutcomes, failOk \in BOOLEAN :
          LET provider == providerOrder[i].providerType
              attempt == i
          IN  IF gen.kind = "text"
              THEN /\ calls' = Append(calls, Call(i, provider, "ok", gen))
                   /\ result' = [kind |-> "result", provider |-> provider,
                                 model |-> "unknown", index |-> i, text |-> gen.text,
                                 wasFailover |-> i > 1,
                                 failoverFrom |-> previousProvider,
                                 totalAttempts |-> attempt]
                   /\ pc' = "done"
                   /\ UNCHANGED <<i, previousProvider, errors, usage, trackFault>>
              ELSE /\ calls' = Append(calls, Call(i, provider, "throw", gen))
                   /\ errors' = Append(errors, [provider |-> provider, error |-> gen.message])
                   /\ usage' = IF failOk
                               THEN Append(usage, TrackFailure(provider, "unknown", gen.message, i))
                               ELSE usage
                   /\ trackFault' = (trackFault \/ ~failOk)
                   /\ previousProvider' = provider
                   /\ result' = result
                   /\ IF ~IsRetryableError(gen.message)
                      THEN pc' = "exhausted" /\ i' = i
                      ELSE pc' = "loop" /\ i' = i + 1
    /\ UNCHANGED <<fn, providerOrder, failoverFrom, lastError>>
    /\ UNCHANGED <<classifierVars, resolverVars, adminVars>>

WithFailoverThrow ==
    /\ fn = "withFailover" /\ LoopEnded
    /\ result' = FailoverError(FeatureType, errors)
    /\ pc' = "done"
    /\ UNCHANGED <<fn, providerOrder, i, failoverFrom, previousProvider, lastError,
                   errors, usage, calls, trackFault>>
    /\ UNCHANGED <<classifierVars, resolverVars, adminVars>>

(***************************************************************************)
(* Error classification on its own: isRetryableError applied to messages   *)
(* assembled from fragments, so that indicators occur alone, together, in  *)
(* upper case and across fragment boundaries ("40" followed by "3").       *)
(***************************************************************************)
FragRateLimit == <<"R", "a", "t", "e", " ", "L", "i", "m", "i", "t">>
FragServiceUnavailable == <<"S", "E", "R", "V", "I", "C", "E", " ", "U", "N", "A", "V", "A", "I", "L", "A", "B", "L", "E">>
FragNetwork == <<"N", "e", "t", "w", "o", "r", "k">>
FragTimeout == <<"T", "i", "m", "e", "O", "u", "t">>
FragEconnrefused == <<"E", "C", "O", "N", "N", "R", "E", "F", "U", "S", "E", "D">>
FragEnotfound == <<"E", "N", "O", "T", "F", "O", "U", "N", "D">>
FragFetchFailed == <<"F", "e", "t", "c", "h", " ", "F", "a", "i", "l", "e", "d">>
FragError == <<" ", "e", "r", "r", "o", "r", " ">>
FragUnauthorized == <<"U", "n", "a", "u", "t", "h", "o", "r", "i", "z", "e", "d">>

Fragments ==
    { C400, C401, C403, C429, C500, C502, C503, C504,
      FragRateLimit, FragServiceUnavailable, FragNetwork, FragTimeout,
      FragEconnrefused, FragEnotfound, FragFetchFailed, FragError,
      FragUnauthorized, <<"4", "0">>, <<"5", "0">>, <<"3">> }

RECURSIVE Flatten(_)
Flatten(parts) ==
    IF parts = <<>> THEN <<>> ELSE Head(parts) \o Flatten(Tail(parts))

ErrorMessages ==
    UNION { { Flatten(parts) : parts \in [1..n -> Fragments] } : n \in 0..MaxFragments }

Classify ==
    /\ cpc = "idle"
    /\ \E message \in ErrorMessages :
          /\ clsMessage' = message
          /\ clsResult' = IsRetryableError(message)
          /\ clsResultOllama' = OllamaIsRetryableError(message)
    /\ cpc' = "done"
    /\ UNCHANGED <<routerVars, resolverVars, adminVars>>

(***************************************************************************)
(* Feature resolver.  The provider and model tables: two providers, four   *)
(* seeded models and one ("m5") that can be added while a resolution runs. *)
(* A modelId is the list of its parts, so that includes(':free') is        *)
(* membership; a null contextWindow is 0 (both are falsy wherever the code *)
(* reads it).                                                              *)
(***************************************************************************)
MaxRules == 2

ProviderIds == {"p1", "p2"}
ModelOrder == <<"m1", "m2", "m3", "m4", "m5">>
SeededModels == {"m1", "m2", "m3", "m4"}

ProviderRow(pid, enabled) ==
    IF pid = "p1"
    THEN [id |-> "p1", isEnabled |-> enabled, costTier |-> "free",
          qualityTier |-> "fast", capabilities |-> {"korean"}]
    ELSE [id |-> "p2", isEnabled |-> enabled, costTier |-> "high",
          qualityTier |-> "premium", capabilities |-> {}]

ModelRow(id) ==
    CASE id = "m1" -> [id |-> "m1", providerId |-> "p1", modelId |-> <<"llama-3", ":free">>,
                       contextWindow |-> 0, supportsVision |-> FALSE, supportsTools |-> FALSE]
      [] id = "m2" -> [id |-> "m2", providerId |-> "p1", modelId |-> <<"gpt-4o-mini">>,
                       contextWindow |-> 128, supportsVision |-> TRUE, supportsTools |-> TRUE]
      [] id = "m3" -> [id |-> "m3", providerId |-> "p2", modelId |-> <<"claude-sonnet">>,
                       contextWindow |-> 200, supportsVision |-> TRUE, supportsTools |-> TRUE]
      [] id = "m4" -> [id |-> "m4", providerId |-> "p2", modelId |-> <<"mixtral", ":free">>,
                       contextWindow |-> 128, supportsVision |-> FALSE, supportsTools |-> TRUE]
      [] OTHER     -> [id |-> "m5", providerId |-> "p2", modelId |-> <<"haiku">>,
                       contextWindow |-> 64, supportsVision |-> FALSE, supportsTools |-> FALSE]

(* A model row together with its provider row (include: { provider: true }). *)
WithProvider(id) ==
    [model |-> ModelRow(id),
     provider |-> ProviderRow(ModelRow(id).providerId, dbProviders[ModelRow(id).providerId])]

NoJoin == [present |-> FALSE]

(* featureMapping rows and the inputs createOrUpdateMapping accepts. *)
MappingInputs ==
    { [priority |-> pr, matchMode |-> t.matchMode, requiredTags |-> t.requiredTags,
       excludedTags |-> t.excludedTags, specificModelId |-> t.specificModelId,
       fallbackMode |-> fb] :
        pr \in 1..MaxRules,
        fb \in {"next_priority", "fail"},
        t \in { [matchMode |-> "auto_tag", requiredTags |-> {}, excludedTags |-> {},
                 specificModelId |-> ""],
                [matchMode |-> "auto_tag", requiredTags |-> {"vision"},
                 excludedTags |-> {"cheap"}, specificModelId |-> ""],
                [matchMode |-> "specific_model", requiredTags |-> {}, excludedTags |-> {},
                 specificModelId |-> "m3"],
                [matchMode |-> "specific_model", requiredTags |-> {}, excludedTags |-> {},
                 specificModelId |-> "m5"] } }

NoRequirements ==
    [needsVision |-> FALSE, needsTools |-> FALSE, preferredCost |-> "",
     preferredQuality |-> "", minContextWindow |-> 0]

RequirementSets ==
    { NoRequirements,
      [NoRequirements EXCEPT !.needsVision = TRUE],
      [NoRequirements EXCEPT !.minContextWindow = 100] }

(* Stable sort, as Array.prototype.sort: x goes after every element that *)
(* does not compare greater than it.                                      *)
InsertSorted(sorted, x, notAfter) ==
    LET p == Cardinality(notAfter)
    IN  SubSeq(sorted, 1, p) \o <<x>> \o SubSeq(sorted, p + 1, Len(sorted))

PriorityCompare(a, b) == b.priority - a.priority

(* sortedMappings = mappings.sort((a, b) => b.priority - a.priority) *)
RECURSIVE SortMappings(_)
SortMappings(seq) ==
    IF seq = <<>> THEN <<>>
    ELSE LET sorted == SortMappings(SubSeq(seq, 1, Len(seq) - 1))
             x == seq[Len(seq)]
         IN  InsertSorted(sorted, x,
                 {k \in 1..Len(sorted) : PriorityCompare(sorted[k], x) <= 0})

(* getMappingsForFeature: the rows by descending priority, each with its   *)
(* pinned model joined when that model exists.                             *)
GetMappingsForFeature ==
    LET joined == [k \in 1..Len(dbMappings) |->
                     [priority |-> dbMappings[k].priority,
                      matchMode |-> dbMappings[k].matchMode,
                      requiredTags |-> dbMappings[k].requiredTags,
                      excludedTags |-> dbMappings[k].excludedTags,
                      specificModelId |-> dbMappings[k].specificModelId,
                      fallbackMode |-> dbMappings[k].fallbackMode,
                      specificModel |->
                          IF dbMappings[k].specificModelId \in dbModels
                          THEN [present |-> TRUE,
                                model |-> ModelRow(dbMappings[k].specificModelId),
                                provider |-> WithProvider(dbMappings[k].specificModelId).provider]
                          ELSE NoJoin]]
    IN  SortMappings(joined)

(* The tag switch of resolveByTags. *)
TagHolds(tag, model, provider) ==
    CASE tag = "vision" -> model.supportsVision
      [] tag = "tools" -> model.supportsTools
      [] tag = "fast" -> provider.qualityTier = "fast"
      [] tag = "balanced" -> provider.qualityTier = "balanced"
      [] tag = "premium" -> provider.qualityTier = "premium"
      [] tag \in {"cheap", "low"} -> provider.costTier = "low" \/ provider.costTier = "free"
      [] tag = "medium" -> provider.costTier = "medium"
      [] tag \in {"expensive", "high"} -> provider.costTier = "high"
      [] OTHER -> tag \in provider.capabilities

Qualifies(model, provider, mapping, requirements) ==
    /\ \A tag \in mapping.requiredTags : TagHolds(tag, model, provider)
    /\ ~\E tag \in mapping.excludedTags : TagHolds(tag, model, provider)
    /\ ~(requirements.needsVision /\ ~model.supportsVision)
    /\ ~(requirements.needsTools /\ ~model.supportsTools)
    /\ ~(requirements.preferredCost # "" /\ provider.costTier # requirements.preferredCost)
    /\ ~(requirements.preferredQuality # ""
           /\ provider.qualityTier # requirements.preferredQuality)
    /\ ~( /\ requirements.minContextWindow # 0
          /\ model.contextWindow # 0
          /\ model.contextWindow < requirements.minContextWindow )

IsFree(model) == \E k \in 1..Len(model.modelId) : model.modelId[k] = ":free"

QualityCompare_ContextOnly(a, b) == b.model.contextWindow - a.model.contextWindow

QualityCompare(a, b) ==
    IF IsFree(a.model) # IsFree(b.model)
    THEN (IF IsFree(a.model) THEN 1 ELSE -1)
    ELSE b.model.contextWindow - a.model.contextWindow

(* results.sort(...) at the end of resolveByTags *)
RECURSIVE SortResults(_)
SortResults(seq) ==
    IF seq = <<>> THEN <<>>
    ELSE LET sorted == SortResults(SubSeq(seq, 1, Len(seq) - 1))
             x == seq[Len(seq)]
         IN  InsertSorted(sorted, x,
                 {k \in 1..Len(sorted) : QualityCompare(sorted[k], x) <= 0})

Candidate(provider, model, mapping) ==
    [provider |-> provider, model |-> model, priority |-> mapping.priority,
     fallbackMode |-> mapping.fallbackMode]

ResolveByTags(mapping, requirements) ==
    LET ids == SelectSeq(ModelOrder,
                   LAMBDA id : id \in dbModels /\ dbProviders[ModelRow(id).providerId])
        kept == SelectSeq(ids,
                   LAMBDA id : Qualifies(ModelRow(id), WithProvider(id).provider,
                                         mapping, requirements))
        found == [k \in 1..Len(kept) |->
                    Candidate(WithProvider(kept[k]).provider, ModelRow(kept[k]), mapping)]
    IN  SortResults(found)

ResolveBySpecificModel(mapping) ==
    IF mapping.specificModelId = "" THEN <<>>
    ELSE IF mapping.specificModel.present
    THEN << Candidate(mapping.specificModel.provider, mapping.specificModel.model, mapping) >>
    ELSE IF \/ mapping.specificModelId \notin dbModels
            \/ ~WithProvider(mapping.specificModelId).provider.isEnabled
    THEN <<>>
    ELSE << Candidate(WithProvider(mapping.specificModelId).provider,
                      ModelRow(mapping.specificModelId), mapping) >>

(* The de-duplication loop of resolveWithFallback.  Provider and model ids *)
(* are opaque database identifiers, so the key provider.id:model.id is     *)
(* the pair of the two ids.                                                *)
UniqueResults_KeepAll(list, seen) == list

RECURSIVE UniqueResults(_, _)
UniqueResults(list, seen) ==
    IF list = <<>> THEN <<>>
    ELSE LET key == <<Head(list).provider.id, Head(list).model.id>>
         IN  IF key \in seen
             THEN UniqueResults(Tail(list), seen)
             ELSE <<Head(list)>> \o UniqueResults(Tail(list), seen \cup {key})

(* createOrUpdateMapping: the row with the input's priority is replaced,   *)
(* or a new row is appended.                                               *)
CreateOrUpdateMapping ==
    /\ rpc = "idle"
    /\ \E input \in MappingInputs :
          IF \E k \in 1..Len(dbMappings) : dbMappings[k].priority = input.priority
          THEN LET k == CHOOSE k \in 1..Len(dbMappings) :
                           dbMappings[k].priority = input.priority
               IN  dbMappings' = [dbMappings EXCEPT ![k] = input]
          ELSE dbMappings' = Append(dbMappings, input)
    /\ UNCHANGED <<dbProviders, dbModels, reqs, mappings, rpc, ruleIdx, results, resolved>>
    /\ UNCHANGED <<routerVars, classifierVars, adminVars>>

(* ProviderRegistry.update(id, { isEnabled }) by another request. *)
SetProviderEnabled ==
    /\ rpc \in {"idle", "rules"}
    /\ \E pid \in ProviderIds, enabled \in BOOLEAN :
          /\ dbProviders[pid] # enabled
          /\ dbProviders' = [dbProviders EXCEPT ![pid] = enabled]
    /\ UNCHANGED <<dbModels, dbMappings, reqs, mappings, rpc, ruleIdx, results, resolved>>
    /\ UNCHANGED <<routerVars, classifierVars, adminVars>>

(* ProviderRegistry.addModel by another request. *)
AddModel ==
    /\ rpc \in {"idle", "rules"}
    /\ "m5" \notin dbModels
    /\ dbModels' = dbModels \cup {"m5"}
    /\ UNCHANGED <<dbProviders, dbMappings, reqs, mappings, rpc, ruleIdx, results, resolved>>
    /\ UNCHANGED <<routerVars, classifierVars, adminVars>>

(* resolveWithFallback up to the start of the rule loop. *)
ResolveStart ==
    /\ rpc = "idle"
    /\ \E requirements \in RequirementSets : reqs' = requirements
    /\ mappings' = GetMappingsForFeature
    /\ ruleIdx' = 1
    /\ results' = <<>>
    /\ IF GetMappingsForFeature = <<>>
       THEN rpc' = "done" /\ resolved' = <<>>
       ELSE rpc' = "rules" /\ resolved' = resolved
    /\ UNCHANGED <<dbProviders, dbModels, dbMappings>>
    /\ UNCHANGED <<routerVars, classifierVars, adminVars>>

(* The loop's exit test: a rule with fallbackMode 'fail' ends the loop. *)
NextRuleIndex_NoBreak(mapping, idx, total) == idx + 1

NextRuleIndex(mapping, idx, total) ==
    IF mapping.fallbackMode = "fail" THEN total + 1 ELSE idx + 1

(* One iteration of the rule loop. *)
ResolveRule ==
    /\ rpc = "rules" /\ ruleIdx <= Len(mappings)
    /\ LET mapping == mappings[ruleIdx]
           found == IF mapping.matchMode = "auto_tag"
                    THEN ResolveByTags(mapping, reqs)
                    ELSE IF mapping.matchMode = "specific_model"
                            /\ mapping.specificModelId # ""
                    THEN ResolveBySpecificModel(mapping)
                    ELSE <<>>
       IN  /\ results' = results \o found
           /\ ruleIdx' = NextRuleIndex(mapping, ruleIdx, Len(mappings))
    /\ UNCHANGED <<dbProviders, dbModels, dbMappings, reqs, mappings, rpc, resolved>>
    /\ UNCHANGED <<routerVars, classifierVars, adminVars>>

(* After the loop: de-duplicate and return. *)
ResolveFinish ==
    /\ rpc = "rules" /\ ruleIdx > Len(mappings)
    /\ resolved' = UniqueResults(results, {})
    /\ rpc' = "done"
    /\ UNCHANGED <<dbProviders, dbModels, dbMappings, reqs, mappings, ruleIdx, results>>
    /\ UNCHANGED <<routerVars, classifierVars, adminVars>>

(* resolve: the first candidate, or none. *)
Resolve == IF Len(resolved) > 0 THEN <<resolved[1]>> ELSE <<>>

(***************************************************************************)
(* Provider registry: the provider table with each provider's models, the  *)
(* in-memory cache of ProviderRegistry and its operations.  Operations run *)
(* one at a time.  A model's modelId is a number of the vendor's catalogue; *)
(* a provider holds at most one row per modelId.                           *)
(***************************************************************************)
MaxModels == 2

RegistryIds == {"r1"}
VendorModelIds == 1..MaxModels

NoRow == [exists |-> FALSE, apiKeyEncrypted |-> <<>>, isValidated |-> FALSE, models |-> {}]
ModelRec(mid, def) == [modelId |-> mid, isDefault |-> def]
ModelIdsOf(models) == {m.modelId : m \in models}

(* registry-defaults: the template's first model is the flagged default. *)
DEFAULT_MODELS == {ModelRec(1, TRUE)}

(* encryptApiKey: iv:tag:ciphertext *)
EncryptApiKey(plaintext) == <<"iv", "tag", "ct">>
ApiKeyInputs == {Undefined, "", "sk-1"}

NoEntry == [present |-> FALSE]
NullValue == [kind |-> "null"]
NoValue == [kind |-> "void"]
ProviderValue(data) == [kind |-> "provider", data |-> data]
ThrewValue(level) == [kind |-> "threw", level |-> level]

(* { ...provider, hasApiKey: !!provider.apiKeyEncrypted } of get and list: *)
(* the spread copies every column of the row, the credential included.    *)
WithKeyStatus(id, row) ==
    [id |-> id, apiKeyEncrypted |-> row.apiKeyEncrypted, isValidated |-> row.isValidated,
     models |-> row.models, hasApiKey |-> row.apiKeyEncrypted # <<>>]

InvalidateCache_Keep(cache, id) == cache

InvalidateCache(cache, id) == [cache EXCEPT ![id] = NoEntry]

SetCache(cache, id, data) == [cache EXCEPT ![id] = [present |-> TRUE, data |-> data]]

(* getFromCache: an expired entry is deleted and missed. *)
GetFromCache(cache, id, expired) ==
    IF ~cache[id].present THEN [cache |-> cache, hit |-> FALSE]
    ELSE IF expired THEN [cache |-> InvalidateCache(cache, id), hit |-> FALSE]
    ELSE [cache |-> cache, hit |-> TRUE]

(* get: the value returned and the cache it leaves. *)
RegistryGet(db, cache, id, expired) ==
    LET c == GetFromCache(cache, id, expired)
    IN  IF c.hit THEN [cache |-> c.cache, value |-> ProviderValue(c.cache[id].data)]
        ELSE IF db[id].exists
        THEN [cache |-> SetCache(c.cache, id, WithKeyStatus(id, db[id])),
              value |-> ProviderValue(WithKeyStatus(id, db[id]))]
        ELSE [cache |-> c.cache, value |-> NullValue]

Last(op, id, value, listing, before) ==
    [op |-> op, id |-> id, value |-> value, listing |-> listing, before |-> before,
     prevOp |-> regLast.op]

RegistryRegister ==
    \E id \in RegistryIds, apiKey \in ApiKeyInputs :
        /\ ~regDb[id].exists
        /\ LET row == [exists |-> TRUE,
                       apiKeyEncrypted |-> IF apiKey \in {Undefined, ""} THEN <<>>
                                           ELSE EncryptApiKey(apiKey),
                       isValidated |-> FALSE,
                       models |-> DEFAULT_MODELS]
               db == [regDb EXCEPT ![id] = row]
               g == RegistryGet(db, InvalidateCache(regCache, id), id, FALSE)
           IN  /\ regDb' = db
               /\ regCache' = g.cache
               /\ regLast' = Last("register", id, g.value, {}, {})
        /\ UNCHANGED exceptRegistry

RegistryUpdate ==
    \E id \in RegistryIds, apiKey \in ApiKeyInputs :
        /\ regDb[id].exists
        /\ LET row == IF apiKey = Undefined THEN regDb[id]
                      ELSE [regDb[id] EXCEPT
                               !.apiKeyEncrypted = IF apiKey = "" THEN <<>>
                                                   ELSE EncryptApiKey(apiKey),
                               !.isValidated = FALSE]
               db == [regDb EXCEPT ![id] = row]
               g == RegistryGet(db, InvalidateCache(regCache, id), id, FALSE)
           IN  /\ regDb' = db
               /\ regCache' = g.cache
               /\ regLast' = Last("update", id, g.value, {}, {})
        /\ UNCHANGED exceptRegistry

RegistryRemove ==
    \E id \in RegistryIds :
        /\ regDb[id].exists
        /\ regDb' = [regDb EXCEPT ![id] = NoRow]
        /\ regCache' = InvalidateCache(regCache, id)
        /\ regLast' = Last("remove", id, NoValue, {}, {})
        /\ UNCHANGED exceptRegistry

RegistryGetAction ==
    \E id \in RegistryIds, expired \in BOOLEAN :
        /\ LET g == RegistryGet(regDb, regCache, id, expired)
           IN  /\ regCache' = g.cache
               /\ regLast' = Last("get", id, g.value, {}, {})
        /\ UNCHANGED regDb
        /\ UNCHANGED exceptRegistry

(* list(): every provider row is returned and cached. *)
RegistryList ==
    /\ regCache' = [id \in RegistryIds |->
                      IF regDb[id].exists
                      THEN [present |-> TRUE, data |-> WithKeyStatus(id, regDb[id])]
                      ELSE regCache[id]]
    /\ regLast' = Last("list", "", NoValue, {}, {})
    /\ UNCHANGED regDb
    /\ UNCHANGED exceptRegistry

(* registry-sync validateProvider: whatever the adapter does, the outcome  *)
(* is written to the row, the cache entry is dropped and a result returned. *)
AdapterOutcomes == {"valid", "invalid", "noAdapter", "adapterThrows"}

ValidateProvider(db, cache, id, outcome) ==
    [db |-> [db EXCEPT ![id].isValidated = (outcome = "valid")],
     cache |-> InvalidateCache(cache, id),
     value |-> [kind |-> "validation", isValid |-> (outcome = "valid")]]

RegistryValidate ==
    \E id \in RegistryIds, expired \in BOOLEAN, outcome \in AdapterOutcomes :
        /\ LET g == RegistryGet(regDb, regCache, id, expired)
               v == ValidateProvider(regDb, g.cache, id, outcome)
           IN  IF g.value = NullValue
               THEN /\ regDb' = regDb
                    /\ regCache' = g.cache
                    /\ regLast' = Last("validate", id,
                                       [kind |-> "validation", isValid |-> FALSE], {}, {})
               ELSE /\ regDb' = v.db
                    /\ regCache' = v.cache
                    /\ regLast' = Last("validate", id, v.value, {}, {})
        /\ UNCHANGED exceptRegistry

(* The model rows syncProviderModels leaves for vendor listing V. *)
SyncModelSet_DropUnlisted(existing, listing) ==
    {ModelRec(v, FALSE) : v \in listing \ ModelIdsOf(existing)}
        \cup {m \in existing : m.modelId \in listing}

SyncModelSet(existing, listing) ==
    LET created == {ModelRec(v, FALSE) : v \in listing \ ModelIdsOf(existing)}
        modelsToRemove == IF listing # {}
                          THEN {m \in existing : m.modelId \notin listing /\ ~m.isDefault}
                          ELSE {}
    IN  (existing \cup created) \ modelsToRemove

(* syncModels: getAdapter and adapter.listModels run outside any try. *)
SyncProviderModels(db, cache, id, outcome, listing) ==
    IF outcome \in {"noAdapter", "adapterThrows"}
    THEN [db |-> db, cache |-> cache, value |-> ThrewValue("adapter")]
    ELSE LET db1 == [db EXCEPT ![id].models = SyncModelSet(db[id].models, listing)]
             g == RegistryGet(db1, InvalidateCache(cache, id), id, FALSE)
         IN  [db |-> db1, cache |-> g.cache,
              value |-> IF g.value = NullValue THEN [kind |-> "models", models |-> {}]
                        ELSE [kind |-> "models", models |-> g.value.data.models]]

RegistrySyncModels ==
    \E id \in RegistryIds, expired \in BOOLEAN,
       outcome \in {"listed", "noAdapter", "adapterThrows"},
       listing \in SUBSET VendorModelIds :
        /\ LET g == RegistryGet(regDb, regCache, id, expired)
               r == SyncProviderModels(regDb, g.cache, id, outcome, listing)
           IN  IF g.value = NullValue
               THEN /\ regDb' = regDb
                    /\ regCache' = g.cache
                    /\ regLast' = Last("syncModels", id, ThrewValue("registry"), {}, {})
               ELSE /\ regDb' = r.db
                    /\ regCache' = r.cache
                    /\ regLast' = Last("syncModels", id, r.value,
                                       IF outcome = "listed" THEN listing ELSE {},
                                       regDb[id].models)
        /\ UNCHANGED exceptRegistry

RegistryAddModel ==
    \E id \in RegistryIds, mid \in VendorModelIds, def \in BOOLEAN :
        /\ regDb[id].exists
        /\ mid \notin ModelIdsOf(regDb[id].models)
        /\ regDb' = [regDb EXCEPT ![id].models = @ \cup {ModelRec(mid, def)}]
        /\ regCache' = InvalidateCache(regCache, id)
        /\ regLast' = Last("addModel", id, NoValue, {}, {})
        /\ UNCHANGED exceptRegistry

RegistryUpdateModel ==
    \E id \in RegistryIds, def \in BOOLEAN :
        \E m \in regDb[id].models :
            /\ regDb' = [regDb EXCEPT ![id].models =
                            (@ \ {m}) \cup {ModelRec(m.modelId, def)}]
            /\ regCache' = InvalidateCache(regCache, id)
            /\ regLast' = Last("updateModel", id, NoValue, {}, {})
            /\ UNCHANGED exceptRegistry

RegistryRemoveModel ==
    \E id \in RegistryIds :
        \E m \in regDb[id].models :
            /\ regDb' = [regDb EXCEPT ![id].models = @ \ {m}]
            /\ regCache' = InvalidateCache(regCache, id)
            /\ regLast' = Last("removeModel", id, NoValue, {}, {})
            /\ UNCHANGED exceptRegistry

(***************************************************************************)
(* smart-routing: budget thresholds.  One lLMBudget row (rows of other     *)
(* periods are independent); lastAlertThreshold 0 is null.  Costs and      *)
(* budgets are whole dollars; percentUsed = currentCost / budgetUsd * 100  *)
(* is compared without dividing, a zero budget giving Infinity for a       *)
(* positive cost and NaN (every comparison false) for a zero cost.         *)
(***************************************************************************)
MaxChecks == 4

BudgetAmounts == {0, 10}
CostLevels == {0, 7, 8, 9, 10, 12}

NoBudget == [exists |-> FALSE, budgetUsd |-> 0, alertAt80 |-> FALSE, alertAt100 |-> FALSE,
             lastAlertThreshold |-> 0]

PercentAtLeast(currentCost, budgetUsd, threshold) ==
    IF budgetUsd = 0 THEN currentCost > 0
    ELSE currentCost * 100 >= threshold * budgetUsd

PercentBelow(currentCost, budgetUsd, threshold) ==
    IF budgetUsd = 0 THEN FALSE
    ELSE currentCost * 100 < threshold * budgetUsd

(* The threshold checkBudgetThreshold alerts at, 0 when it returns null. *)
BudgetDecision_NoMemory(budget, currentCost) ==
    IF ~budget.exists THEN 0
    ELSE IF PercentAtLeast(currentCost, budget.budgetUsd, 100) /\ budget.alertAt100 THEN 100
    ELSE IF /\ PercentAtLeast(currentCost, budget.budgetUsd, 80)
            /\ PercentBelow(currentCost, budget.budgetUsd, 100)
            /\ budget.alertAt80
    THEN 80
    ELSE 0

BudgetDecision(budget, currentCost) ==
    IF ~budget.exists THEN 0
    ELSE IF /\ PercentAtLeast(currentCost, budget.budgetUsd, 100) /\ budget.alertAt100
            /\ budget.lastAlertThreshold # 100
    THEN 100
    ELSE IF /\ PercentAtLeast(currentCost, budget.budgetUsd, 80)
            /\ PercentBelow(currentCost, budget.budgetUsd, 100)
            /\ budget.alertAt80
            /\ budget.lastAlertThreshold # 80 /\ budget.lastAlertThreshold # 100
    THEN 80
    ELSE 0

(* updateAlertStatus *)
UpdateAlertStatus(budget, threshold) == [budget EXCEPT !.lastAlertThreshold = threshold]

CheckBudgetThreshold ==
    /\ Len(budgetLog) < MaxChecks
    /\ \E currentCost \in CostLevels :
          LET alert == BudgetDecision(budgetRow, currentCost)
              after == IF alert # 0 THEN UpdateAlertStatus(budgetRow, alert) ELSE budgetRow
          IN  /\ budgetRow' = after
              /\ budgetLog' = Append(budgetLog,
                                  [alert |-> alert,
                                   before |-> budgetRow.lastAlertThreshold,
                                   after |-> after.lastAlertThreshold])
              /\ budgetLast' = [currentCost |-> currentCost,
                                budgetUsd |-> budgetRow.budgetUsd]
    /\ UNCHANGED exceptBudget

(* saveBudgetConfig: upsert; an update leaves the alert state alone. *)
SaveBudgetConfig ==
    /\ \E budgetUsd \in BudgetAmounts, alertAt80 \in BOOLEAN, alertAt100 \in BOOLEAN :
          /\ budgetRow' = [exists |-> TRUE, budgetUsd |-> budgetUsd, alertAt80 |-> alertAt80,
                           alertAt100 |-> alertAt100,
                           lastAlertThreshold |-> budgetRow.lastAlertThreshold]
          /\ budgetRow' # budgetRow
    /\ UNCHANGED <<budgetLog, budgetLast>>
    /\ UNCHANGED exceptBudget

ResetBudgetAlertStatus ==
    /\ budgetRow' = IF budgetRow.exists THEN [budgetRow EXCEPT !.lastAlertThreshold = 0]
                    ELSE budgetRow
    /\ budgetLog' = <<>>
    /\ budgetLog # <<>>
    /\ UNCHANGED budgetLast
    /\ UNCHANGED exceptBudget

(***************************************************************************)
(* usage-aggregation: monthly aggregates and the purge of raw usage rows.  *)
(* Time is counted in days, two to a month, months numbered through the    *)
(* years.  A monthly row is its totalRequests, 0 standing for no row (the  *)
(* upsert is skipped when the count is 0).  Each raw row remembers whether *)
(* an aggregation run has counted it.                                      *)
(***************************************************************************)
MaxDays == 4
MaxUsageRows == 3

PROVIDERS == {"anthropic", "openai", "google", "ollama"}
FEATURES == {"learning_analysis", "counseling_suggest", "report_generate", "face_analysis",
             "palm_analysis", "personality_summary"}

(* Providers and features a usage record can carry (ProviderName, FeatureType). *)
UsageProviders == {"openai", "deepseek"}
UsageFeatures == {"report_generate", "saju_analysis"}

MonthOf(day) == (day + 1) \div 2
Months == {MonthOf(d) : d \in 1..MaxDays}
MonthlyKeys == Months \X UsageProviders \X UsageFeatures

RowsOf(rows, month, provider, featureType) ==
    {r \in rows : /\ MonthOf(r.day) = month
                   /\ r.provider = provider
                   /\ r.featureType = featureType}

(* aggregateMonthlyUsage(year, month): the monthly table and the raw rows *)
(* (with the counted mark) it leaves.                                     *)
AggregatedKey(key, month) ==
    key[1] = month /\ key[2] \in PROVIDERS /\ key[3] \in FEATURES

AggregateMonthlyUsage(monthly, rows, month) ==
    [monthly |->
        [key \in MonthlyKeys |->
            IF AggregatedKey(key, month) /\ RowsOf(rows, key[1], key[2], key[3]) # {}
            THEN Cardinality(RowsOf(rows, key[1], key[2], key[3]))
            ELSE monthly[key]],
     usage |->
        {IF AggregatedKey(<<MonthOf(r.day), r.provider, r.featureType>>, month)
         THEN [r EXCEPT !.counted = TRUE] ELSE r : r \in rows}]

(* The while loop of cleanupOldUsageData over the months first..last. *)
RECURSIVE EnsureAggregated(_, _, _, _)
EnsureAggregated(monthly, rows, first, last) ==
    IF first > last THEN [monthly |-> monthly, usage |-> rows]
    ELSE LET existingAggregation ==
                 Cardinality({key \in MonthlyKeys : key[1] = first /\ monthly[key] > 0})
             a == IF existingAggregation = 0
                  THEN AggregateMonthlyUsage(monthly, rows, first)
                  ELSE [monthly |-> monthly, usage |-> rows]
         IN  EnsureAggregated(a.monthly, a.usage, first + 1, last)

(* trackUsage / trackFailure writing one row, createdAt = now. *)
AggregationTrackUsage ==
    /\ Cardinality(aggUsage) + Cardinality(aggPurged) < MaxUsageRows
    /\ \E provider \in UsageProviders, featureType \in UsageFeatures :
          LET id == 1 + Cardinality({r.id : r \in aggUsage \cup aggPurged})
          IN  aggUsage' = aggUsage \cup
                  {[id |-> id, day |-> aggNow, provider |-> provider,
                    featureType |-> featureType, counted |-> FALSE]}
    /\ UNCHANGED <<aggNow, aggMonthly, aggPurged>>
    /\ UNCHANGED exceptAggregation

AggregationTick ==
    /\ aggNow < MaxDays
    /\ aggNow' = aggNow + 1
    /\ UNCHANGED <<aggUsage, aggMonthly, aggPurged>>
    /\ UNCHANGED exceptAggregation

AggregateMonthlyUsageAction ==
    /\ \E month \in 1..MonthOf(aggNow) :
          LET a == AggregateMonthlyUsage(aggMonthly, aggUsage, month)
          IN  /\ aggMonthly' = a.monthly
              /\ aggUsage' = a.usage
              /\ a.usage # aggUsage
    /\ UNCHANGED <<aggNow, aggPurged>>
    /\ UNCHANGED exceptAggregation

(* cleanupOldUsageData(retentionDays): cutoff = now - retentionDays. *)
CleanupOldUsageData ==
    /\ \E cutoffDate \in 1..aggNow :
          LET old == {r \in aggUsage : r.day < cutoffDate}
              oldestDay == CHOOSE d \in {r.day : r \in old} : \A r \in old : d <= r.day
              e == IF old # {}
                   THEN EnsureAggregated(aggMonthly, aggUsage, MonthOf(oldestDay),
                                         MonthOf(cutoffDate))
                   ELSE [monthly |-> aggMonthly, usage |-> aggUsage]
              deleted == {r \in e.usage : r.day < cutoffDate}
          IN  /\ old # {}
              /\ aggMonthly' = e.monthly
              /\ aggUsage' = e.usage \ deleted
              /\ aggPurged' = aggPurged \cup
                    {[r EXCEPT !.counted =
                          r.counted /\ e.monthly[<<MonthOf(r.day), r.provider, r.featureType>>] > 0]
                       : r \in deleted}
    /\ UNCHANGED aggNow
    /\ UNCHANGED exceptAggregation

(***************************************************************************)
(* smart-routing: optimizeProviderOrder (both copies).  Rates are in cents *)
(* per million tokens.                                                     *)
(***************************************************************************)
MaxProviders == 3

ProviderNames ==
    {"anthropic", "openai", "google", "ollama", "deepseek", "mistral", "cohere", "xai",
     "zhipu", "moonshot", "openrouter"}

Rate(input, output) == [input |-> input, output |-> output]

COST_PER_MILLION_TOKENS ==
    [p \in ProviderNames |->
        CASE p = "anthropic"  -> Rate(300, 1500)
          [] p = "openai"     -> Rate(250, 1000)
          [] p = "google"     -> Rate(30, 250)
          [] p = "ollama"     -> Rate(0, 0)
          [] p = "deepseek"   -> Rate(27, 110)
          [] p = "mistral"    -> Rate(200, 600)
          [] p = "cohere"     -> Rate(250, 1000)
          [] p = "xai"        -> Rate(300, 1500)
          [] p = "zhipu"      -> Rate(35, 140)
          [] p = "moonshot"   -> Rate(100, 400)
          [] OTHER            -> Rate(250, 1000)]

(* PROVIDER_CONFIGS[p].supportsVision *)
SupportsVision == {"anthropic", "openai", "google", "xai", "zhipu", "openrouter"}

VISION_FEATURES == {"face_analysis", "palm_analysis"}
VISION_PROVIDERS == {"anthropic", "openai", "google", "xai", "zhipu"}
OptimizerFeatures == {"face_analysis", "palm_analysis", "report_generate"}

GetCostScore(provider) ==
    COST_PER_MILLION_TOKENS[provider].input + COST_PER_MILLION_TOKENS[provider].output * 2

(* [...filteredProviders].sort((a, b) => getCostScore(a) - getCostScore(b)) *)
RECURSIVE SortByCost(_)
SortByCost(seq) ==
    IF seq = <<>> THEN <<>>
    ELSE LET sorted == SortByCost(SubSeq(seq, 1, Len(seq) - 1))
             x == seq[Len(seq)]
         IN  InsertSorted(sorted, x,
                 {k \in 1..Len(sorted) : GetCostScore(sorted[k]) - GetCostScore(x) <= 0})

OptimizeProviderOrder(enabledProviders, featureType) ==
    LET filteredProviders ==
            IF featureType \in VISION_FEATURES
            THEN SelectSeq(enabledProviders, LAMBDA p : p \in VISION_PROVIDERS)
            ELSE enabledProviders
    IN  SortByCost(filteredProviders)

RouterOptimizeProviderOrder(enabledProviders, featureType) ==
    LET filteredProviders ==
            IF featureType \in VISION_FEATURES
            THEN SelectSeq(enabledProviders, LAMBDA p : p \in VISION_PROVIDERS)
            ELSE enabledProviders
    IN  SortByCost(filteredProviders)

(* The lists of enabled providers: each provider at most once. *)
RECURSIVE ProviderLists(_)
ProviderLists(n) ==
    IF n = 0 THEN {<<>>}
    ELSE ProviderLists(n - 1) \cup
         {Append(l, p) : l \in {q \in ProviderLists(n - 1) : Len(q) = n - 1},
                         p \in ProviderNames}

DistinctProviderLists ==
    {l \in ProviderLists(MaxProviders) : \A a, b \in 1..Len(l) : l[a] = l[b] => a = b}

OptimizeCall ==
    /\ optFeature = ""
    /\ \E enabledProviders \in DistinctProviderLists, featureType \in OptimizerFeatures :
          /\ optInput' = enabledProviders
          /\ optFeature' = featureType
          /\ optInputAfter' = enabledProviders
          /\ optResult' = OptimizeProviderOrder(enabledProviders, featureType)
          /\ optResultRouter' = RouterOptimizeProviderOrder(enabledProviders, featureType)
    /\ UNCHANGED exceptOptimizer

(***************************************************************************)
(* streamWithProvider.  streamText returns the stream at once; the usage   *)
(* row of a stream is written by its onFinish callback, after the call has *)
(* returned.                                                               *)
(***************************************************************************)
StreamResult(cand, idx) ==
    [kind |-> "stream", provider |-> cand.providerType, model |-> cand.modelId,
     index |-> idx]

(* what starting the stream of a candidate does: the stream, or an error. *)
StreamStartOutcomes == {GenText(NoText), GenThrow(Msg503), GenThrow(Msg401)}

(* the catch block of streamWithProvider: lastError is kept, nothing else. *)
StreamCatch(msg) ==
    /\ lastError' = NewError(msg)
    /\ i' = i + 1
    /\ UNCHANGED <<pc, usage, result, trackFault>>

StreamIteration(start) ==
    LET cand == providerOrder[i]
        isReady == SetupProviderEnv(cand)
        languageModel == CreateLanguageModel(cand)
    IN  IF isReady.threw
        THEN StreamCatch(isReady.message) /\ calls' = calls
        ELSE IF ~isReady.value
        THEN Skip
        ELSE IF languageModel.threw
        THEN StreamCatch(languageModel.message) /\ calls' = calls
        ELSE IF start.kind = "throw"
        THEN /\ calls' = Append(calls, Call(i, cand.providerType, "throw", start))
             /\ StreamCatch(start.message)
        ELSE /\ calls' = Append(calls, Call(i, cand.providerType, "ok", start))
             /\ result' = StreamResult(cand, i)
             /\ pc' = "done"
             /\ UNCHANGED <<lastError, i, usage, trackFault>>

StreamWithProviderStart ==
    /\ pc = "idle"
    /\ \E order \in CandidateLists :
          IF order = <<>>
          THEN StartThrow("streamWithProvider", order, MsgNoProviders)
          ELSE StartLoop("streamWithProvider", order)
    /\ UNCHANGED <<classifierVars, resolverVars, adminVars>>

StreamWithProviderPinned ==
    /\ pc = "idle"
    /\ \E found \in BOOLEAN, hasModels \in BOOLEAN, cand \in CandidatePool :
          IF ~found \/ ~cand.isEnabled
          THEN StartThrow("streamWithProvider", <<>>, MsgNotFound)
          ELSE IF ~hasModels
          THEN StartThrow("streamWithProvider", <<>>, MsgNoModels)
          ELSE StartLoop("streamWithProvider", <<cand>>)
    /\ UNCHANGED <<classifierVars, resolverVars, adminVars>>

StreamWithProviderIter ==
    /\ pc = "loop" /\ fn = "streamWithProvider" /\ i <= Len(providerOrder)
    /\ \E start \in StreamStartOutcomes : StreamIteration(start)
    /\ UNCHANGED <<fn, providerOrder, failoverFrom, previousProvider, errors>>
    /\ UNCHANGED <<classifierVars, resolverVars, adminVars>>

StreamWithProviderThrow ==
    /\ fn = "streamWithProvider" /\ pc = "loop" /\ i > Len(providerOrder)
    /\ result' = PlainError(IF lastError.set THEN lastError.message ELSE MsgUnknown)
    /\ pc' = "done"
    /\ UNCHANGED <<fn, providerOrder, i, failoverFrom, previousProvider, lastError,
                   errors, usage, calls, trackFault>>
    /\ UNCHANGED <<classifierVars, resolverVars, adminVars>>

(* onFinishCallback: the stream has ended, its usage row is written. *)
StreamOnFinish ==
    /\ fn = "streamWithProvider" /\ pc = "done" /\ result.kind = "stream"
    /\ usage = <<>>
    /\ usage' = <<TrackUsage(result.provider, result.model, Undefined, result.index)>>
    /\ UNCHANGED <<pc, fn, providerOrder, i, failoverFrom, previousProvider, lastError,
                   errors, calls, result, trackFault>>
    /\ UNCHANGED <<classifierVars, resolverVars, adminVars>>

(***************************************************************************)
(* isRefusalResponse on texts around the length limit.  mentions: a        *)
(* refusal phrase occurs in the text, but not at the start of the trimmed  *)
(* text (as in a JSON answer quoting one), where no pattern is anchored.   *)
(***************************************************************************)
MaxMargin == 4
MaxWhitespace == 3

TextLengths ==
    {0, 42} \cup ((REFUSAL_MAX_LENGTH - MaxMargin)..(REFUSAL_MAX_LENGTH + MaxMargin))

TextInputs ==
    { [len |-> l, ws |-> w, refusal |-> r, mentions |-> m] :
        l \in TextLengths, w \in 0..MaxWhitespace, r \in BOOLEAN, m \in BOOLEAN }

IsRefusalResponseCall ==
    /\ refusalPc = "idle"
    /\ \E text \in TextInputs :
          /\ text.ws <= text.len
          /\ refusalText' = text
          /\ refusalResult' = IsRefusalResponse(text)
    /\ refusalPc' = "done"
    /\ UNCHANGED exceptRefusal

(***************************************************************************)
(* createOrUpdateMapping under concurrent calls.  The lookup (findFirst)   *)
(* and the write (update or create) are two database calls with an await   *)
(* between them.  Rows are kept in insertion order; a row's id is its      *)
(* position.  All calls are for the same feature type.                     *)
(***************************************************************************)
MaxMappingRows == 2

MappingCalls == {"a", "b"}
MappingRowInputs ==
    { [priority |-> pr, fallbackMode |-> fb] :
        pr \in 1..MaxRules, fb \in {"next_priority", "fail"} }
IdleCall == [at |-> "idle", input |-> [priority |-> 0, fallbackMode |-> ""], existing |-> 0]

(* findFirst({ where: { featureType, priority } }): the id of the first   *)
(* matching row, 0 for null.                                               *)
FindFirst(rows, priority) ==
    LET hits == {k \in 1..Len(rows) : rows[k].priority = priority}
    IN  IF hits = {} THEN 0 ELSE CHOOSE k \in hits : \A h \in hits : k <= h

(* the database executes the call's findFirst. *)
MappingFindFirst ==
    \E t \in MappingCalls, input \in MappingRowInputs :
        /\ mapTask[t].at = "idle"
        /\ mapTask' = [mapTask EXCEPT ![t] =
                          [at |-> "found", input |-> input,
                           existing |-> FindFirst(mapRows, input.priority)]]
        /\ UNCHANGED mapRows
        /\ UNCHANGED exceptMapping

(* existing is set: the database executes update({ where: { id } }). *)
MappingUpdate ==
    \E t \in MappingCalls :
        /\ mapTask[t].at = "found"
        /\ mapTask[t].existing # 0
        /\ mapRows' = [mapRows EXCEPT ![mapTask[t].existing] = mapTask[t].input]
        /\ mapTask' = [mapTask EXCEPT ![t] = IdleCall]
        /\ UNCHANGED exceptMapping

(* existing is null: the database executes create({ data }). *)
MappingCreate ==
    \E t \in MappingCalls :
        /\ mapTask[t].at = "found"
        /\ mapTask[t].existing = 0
        /\ Len(mapRows) < MaxMappingRows
        /\ mapRows' = Append(mapRows, mapTask[t].input)
        /\ mapTask' = [mapTask EXCEPT ![t] = IdleCall]
        /\ UNCHANGED exceptMapping

(***************************************************************************)
(* checkBudgetThreshold under concurrent calls for one period.  A call     *)
(* awaits findUnique, then getCurrentPeriodCost, then (when it alerts)     *)
(* updateAlertStatus; other calls may run at each await.                   *)
(***************************************************************************)
MaxAlerts == 3

CheckCalls == {"a", "b"}
IdleCheck == [at |-> "idle", budget |-> NoBudget, alert |-> 0]

(* saveBudgetConfig, run on its own. *)
CheckSaveBudgetConfig ==
    /\ \A t \in CheckCalls : checkTask[t] = IdleCheck
    /\ \E budgetUsd \in BudgetAmounts, alertAt80 \in BOOLEAN, alertAt100 \in BOOLEAN :
          /\ checkRow' = [exists |-> TRUE, budgetUsd |-> budgetUsd, alertAt80 |-> alertAt80,
                          alertAt100 |-> alertAt100,
                          lastAlertThreshold |-> checkRow.lastAlertThreshold]
          /\ checkRow' # checkRow
    /\ UNCHANGED <<checkTask, checkAlerts>>
    /\ UNCHANGED exceptCheck

(* the database executes the call's findUnique({ where: { period } }). *)
CheckFindUnique ==
    \E t \in CheckCalls :
        /\ checkTask[t].at = "idle"
        /\ checkRow.exists
        /\ checkTask' = [checkTask EXCEPT ![t] =
                            [at |-> "cost", budget |-> checkRow, alert |-> 0]]
        /\ UNCHANGED <<checkRow, checkAlerts>>
        /\ UNCHANGED exceptCheck

(* getCurrentPeriodCost returns; the thresholds are tested on the row read *)
(* before.  Without an alert the call returns null, with one it issues     *)
(* updateAlertStatus.                                                      *)
CheckGetCurrentPeriodCost ==
    \E t \in CheckCalls, currentCost \in CostLevels :
        /\ checkTask[t].at = "cost"
        /\ LET alert == BudgetDecision(checkTask[t].budget, currentCost)
           IN  checkTask' = [checkTask EXCEPT ![t] =
                                IF alert = 0 THEN IdleCheck
                                ELSE [at |-> "update", budget |-> NoBudget, alert |-> alert]]
        /\ UNCHANGED <<checkRow, checkAlerts>>
        /\ UNCHANGED exceptCheck

(* the database executes updateAlertStatus and the call returns its alert. *)
CheckUpdateAlertStatus ==
    \E t \in CheckCalls :
        /\ checkTask[t].at = "update"
        /\ checkAlerts[checkTask[t].alert] < MaxAlerts
        /\ checkRow' = UpdateAlertStatus(checkRow, checkTask[t].alert)
        /\ checkAlerts' = [checkAlerts EXCEPT ![checkTask[t].alert] = @ + 1]
        /\ checkTask' = [checkTask EXCEPT ![t] = IdleCheck]
        /\ UNCHANGED exceptCheck

(* resetBudgetAlertStatus, at the start of a new period, run on its own. *)
CheckResetBudgetAlertStatus ==
    /\ \A t \in CheckCalls : checkTask[t] = IdleCheck
    /\ checkRow.exists
    /\ checkRow.lastAlertThreshold # 0
    /\ checkRow' = [checkRow EXCEPT !.lastAlertThreshold = 0]
    /\ checkAlerts' = [th \in {80, 100} |-> 0]
    /\ UNCHANGED checkTask
    /\ UNCHANGED exceptCheck

(***************************************************************************)
(* filterByBudget and getBudgetSummary.  A period without a budget row is  *)
(* summarised with budget 0 and isOverBudget false.                        *)
(***************************************************************************)
BudgetPeriods == {"daily", "weekly", "monthly"}

(* the providers the lists handed to filterByBudget are drawn from: the    *)
(* free one and three priced ones.                                         *)
FilterProviders == {"ollama", "google", "openai", "anthropic"}
FilterLists == {l \in DistinctProviderLists : \A k \in 1..Len(l) : l[k] \in FilterProviders}

(* the lLMBudget rows and the usage cost of each period. *)
BudgetTables == [BudgetPeriods -> {NoBudget} \cup
                     {[NoBudget EXCEPT !.exists = TRUE, !.budgetUsd = b] : b \in BudgetAmounts}]
PeriodCosts == [BudgetPeriods -> CostLevels]

GetBudgetSummary(budgets, costs) ==
    [period \in BudgetPeriods |->
        IF ~budgets[period].exists
        THEN [budget |-> 0, currentCost |-> costs[period], remaining |-> 0,
              isOverBudget |-> FALSE]
        ELSE [budget |-> budgets[period].budgetUsd,
              currentCost |-> costs[period],
              remaining |-> IF budgets[period].budgetUsd - costs[period] > 0
                            THEN budgets[period].budgetUsd - costs[period] ELSE 0,
              isOverBudget |-> costs[period] > budgets[period].budgetUsd]]

AllOverBudget(summary) ==
    \A period \in BudgetPeriods : summary[period].budget > 0 /\ summary[period].isOverBudget

IsFreeProvider(p) ==
    COST_PER_MILLION_TOKENS[p].input = 0 /\ COST_PER_MILLION_TOKENS[p].output = 0

FilterByBudget(enabledProviders, summary) ==
    IF AllOverBudget(summary)
    THEN LET freeProviders == SelectSeq(enabledProviders, IsFreeProvider)
         IN  IF Len(freeProviders) > 0 THEN freeProviders ELSE enabledProviders
    ELSE enabledProviders

FilterByBudgetCall ==
    /\ filterPc = "idle"
    /\ \E enabledProviders \in FilterLists, budgets \in BudgetTables, costs \in PeriodCosts :
          LET summary == GetBudgetSummary(budgets, costs)
          IN  /\ filterInput' = enabledProviders
              /\ filterSummary' = summary
              /\ filterResult' = FilterByBudget(enabledProviders, summary)
    /\ filterPc' = "done"
    /\ UNCHANGED exceptFilter

(***************************************************************************)
(* getSmartRoutingDecision: the provider order and the three budget        *)
(* checks, daily, weekly, monthly, each a checkBudgetThreshold that        *)
(* records the threshold it alerts at.                                     *)
(***************************************************************************)
MaxDecisions == 2

DecisionProviderLists == {<<"openai", "ollama">>, <<"anthropic", "google">>}

(* the cost of a period: under 80% of a budget of 10, between 80% and     *)
(* 100%, and over it.                                                      *)
DecisionCosts == [BudgetPeriods -> {0, 8, 12}]
NoAlert == [period |-> "", threshold |-> 0]
BudgetAlert(period, threshold) == [period |-> period, threshold |-> threshold]

(* one checkBudgetThreshold(period): the alert returned and the row left. *)
CheckPeriod(budget, period, currentCost) ==
    LET threshold == BudgetDecision(budget, currentCost)
    IN  [alert |-> IF threshold = 0 THEN NoAlert ELSE BudgetAlert(period, threshold),
         row |-> IF threshold = 0 THEN budget ELSE UpdateAlertStatus(budget, threshold)]

(* dailyAlert || weeklyAlert || monthlyAlert || undefined *)
FirstAlert(dailyAlert, weeklyAlert, monthlyAlert) ==
    IF dailyAlert # NoAlert THEN dailyAlert
    ELSE IF weeklyAlert # NoAlert THEN weeklyAlert
    ELSE monthlyAlert

DecisionSaveBudgetConfig ==
    /\ decisionCalls = 0
    /\ \E period \in BudgetPeriods, budgetUsd \in BudgetAmounts,
          alertAt80 \in BOOLEAN, alertAt100 \in BOOLEAN :
          /\ ~decisionRows[period].exists
          /\ decisionRows' = [decisionRows EXCEPT ![period] =
                                 [exists |-> TRUE, budgetUsd |-> budgetUsd,
                                  alertAt80 |-> alertAt80, alertAt100 |-> alertAt100,
                                  lastAlertThreshold |-> 0]]
    /\ UNCHANGED <<decisionCalls, decisionLast>>
    /\ UNCHANGED exceptDecision

GetSmartRoutingDecision ==
    /\ decisionCalls < MaxDecisions
    /\ \E enabledProviders \in DecisionProviderLists, costs \in DecisionCosts :
          LET orderedProviders == OptimizeProviderOrder(enabledProviders, "report_generate")
              daily == CheckPeriod(decisionRows["daily"], "daily", costs["daily"])
              weekly == CheckPeriod(decisionRows["weekly"], "weekly", costs["weekly"])
              monthly == CheckPeriod(decisionRows["monthly"], "monthly", costs["monthly"])
              budgetWarning == FirstAlert(daily.alert, weekly.alert, monthly.alert)
          IN  /\ decisionRows' = [period \in BudgetPeriods |->
                                    CASE period = "daily" -> daily.row
                                      [] period = "weekly" -> weekly.row
                                      [] OTHER -> monthly.row]
              /\ decisionLast' =
                     [before |-> [period \in BudgetPeriods |->
                                     decisionRows[period].lastAlertThreshold],
                      orderedProviders |-> orderedProviders,
                      budgetWarning |-> budgetWarning]
    /\ decisionCalls' = decisionCalls + 1
    /\ UNCHANGED exceptDecision

(***************************************************************************)
(* createLanguageModel and the OpenAI adapter.  AdapterFactory keeps one   *)
(* instance per provider type; its apiKey and baseUrl fields outlive the   *)
(* call that set them.  A null baseUrl is "", a null credential <<>>.      *)
(***************************************************************************)
MaxAdapterCalls == 4

OPENAI_DEFAULT_BASE_URL == "https://api.openai.com/v1"
KeyOfA == <<"iv", "tag", "ct-a">>
KeyOfB == <<"iv", "tag", "ct-b">>

(* decryptApiKey on a well-formed credential: the plaintext. *)
Plaintext(encryptedData) ==
    IF encryptedData = KeyOfA THEN "sk-a" ELSE IF encryptedData = KeyOfB THEN "sk-b" ELSE "sk"

(* provider records of type openai. *)
OpenAIProviders ==
    { [baseUrl |-> u, apiKeyEncrypted |-> k] :
        u \in {"", "https://proxy-a/v1", "https://proxy-b/v1"},
        k \in {<<>>, KeyOfA, KeyOfB, KeyTwoSegments} }

(* new OpenAIAdapter() *)
NewAdapter == [created |-> FALSE, apiKey |-> "", baseUrl |-> OPENAI_DEFAULT_BASE_URL]

(* AdapterFactory.getAdapter: the cached instance, or a new one cached. *)
GetAdapter(instance) == [instance EXCEPT !.created = TRUE]

SetApiKey(adapter, apiKey) == [adapter EXCEPT !.apiKey = apiKey]
SetBaseUrl(adapter, baseUrl) == [adapter EXCEPT !.baseUrl = baseUrl]

ModelConfig(kind, apiKey, baseURL) == [kind |-> kind, apiKey |-> apiKey, baseURL |-> baseURL]
NoModel == ModelConfig("none", "", "")
ThrewModel == ModelConfig("threw", "", "")

(* OpenAIAdapter.createModel(modelId, config) *)
CreateModel(adapter, config) ==
    LET effectiveApiKey == IF config.apiKeyEncrypted # <<>>
                           THEN Plaintext(config.apiKeyEncrypted)
                           ELSE adapter.apiKey
        effectiveBaseUrl == IF config.baseUrl # "" THEN config.baseUrl ELSE adapter.baseUrl
    IN  IF effectiveBaseUrl # OPENAI_DEFAULT_BASE_URL \/ effectiveApiKey # ""
        THEN ModelConfig("custom", effectiveApiKey, effectiveBaseUrl)
        ELSE ModelConfig("default", "", OPENAI_DEFAULT_BASE_URL)

(* createLanguageModel(provider, model): the adapter it leaves and the     *)
(* model it returns.  A credential that does not decrypt throws before     *)
(* setApiKey is called.                                                    *)
CreateLanguageModelOn(instance, provider) ==
    LET adapter == GetAdapter(instance)
    IN  IF provider.apiKeyEncrypted # <<>> /\ DecryptApiKey(provider.apiKeyEncrypted).threw
        THEN [adapter |-> adapter, model |-> ThrewModel]
        ELSE LET keyed == IF provider.apiKeyEncrypted # <<>>
                          THEN SetApiKey(adapter, Plaintext(provider.apiKeyEncrypted))
                          ELSE adapter
                 based == IF provider.baseUrl # ""
                          THEN SetBaseUrl(keyed, provider.baseUrl)
                          ELSE keyed
             IN  [adapter |-> based, model |-> CreateModel(based, provider)]

CreateLanguageModelCall ==
    /\ adapterCalls < MaxAdapterCalls
    /\ \E provider \in OpenAIProviders :
          LET r == CreateLanguageModelOn(adapterInstance, provider)
          IN  /\ adapterInstance' = r.adapter
              /\ adapterLast' = [provider |-> provider, model |-> r.model]
    /\ adapterCalls' = adapterCalls + 1
    /\ UNCHANGED exceptAdapter

(***************************************************************************)
(* Provider registry under concurrent cooperative tasks.  Every await of   *)
(* get, list, update and remove is a point where the other task may run:   *)
(* a database call executes at one step and the code after its await runs  *)
(* at a later step.  One reading task (get or list) and one mutating task  *)
(* (update or remove) run against the same table and the same cache.       *)
(***************************************************************************)
Task(at, id) == [at |-> at, id |-> id]
IdleTask == Task("idle", "")
NoSnapshot == [id \in RegistryIds |-> NoRow]

(* register, run on its own: the row of a provider without models of its  *)
(* own beyond the template's default.                                      *)
AsyncRegister ==
    \E id \in RegistryIds, apiKey \in ApiKeyInputs :
        /\ readerPc = IdleTask
        /\ writerPc = IdleTask
        /\ ~asyncDb[id].exists
        /\ LET row == [exists |-> TRUE,
                       apiKeyEncrypted |-> IF apiKey \in {Undefined, ""} THEN <<>>
                                           ELSE EncryptApiKey(apiKey),
                       isValidated |-> FALSE,
                       models |-> DEFAULT_MODELS]
               db == [asyncDb EXCEPT ![id] = row]
               g == RegistryGet(db, InvalidateCache(asyncCache, id), id, FALSE)
           IN  /\ asyncDb' = db
               /\ asyncCache' = g.cache
        /\ UNCHANGED <<readerPc, readerSnap, writerPc, writerSnap, writerReturned>>
        /\ UNCHANGED exceptAsync

(* get, up to its await: a cache hit returns at once, a miss issues        *)
(* findUnique.                                                             *)
GetCheckCache ==
    \E id \in RegistryIds, expired \in BOOLEAN :
        /\ readerPc = IdleTask
        /\ LET c == GetFromCache(asyncCache, id, expired)
           IN  /\ asyncCache' = c.cache
               /\ readerPc' = IF c.hit THEN IdleTask ELSE Task("get:query", id)
        /\ UNCHANGED <<asyncDb, readerSnap, writerPc, writerSnap, writerReturned>>
        /\ UNCHANGED exceptAsync

(* the database executes get's findUnique. *)
GetFindUnique ==
    /\ readerPc.at = "get:query"
    /\ readerSnap' = [NoSnapshot EXCEPT ![readerPc.id] = asyncDb[readerPc.id]]
    /\ readerPc' = Task("get:install", readerPc.id)
    /\ UNCHANGED <<asyncDb, asyncCache, writerPc, writerSnap, writerReturned>>
    /\ UNCHANGED exceptAsync

(* get after its await: the row that was read is cached and returned. *)
GetSetCache ==
    /\ readerPc.at = "get:install"
    /\ LET id == readerPc.id
       IN  asyncCache' = IF readerSnap[id].exists
                         THEN SetCache(asyncCache, id, WithKeyStatus(id, readerSnap[id]))
                         ELSE asyncCache
    /\ readerPc' = IdleTask
    /\ readerSnap' = NoSnapshot
    /\ UNCHANGED <<asyncDb, writerPc, writerSnap, writerReturned>>
    /\ UNCHANGED exceptAsync

(* the database executes list's findMany. *)
ListFindMany ==
    /\ readerPc = IdleTask
    /\ readerSnap' = asyncDb
    /\ readerPc' = Task("list:install", "")
    /\ UNCHANGED <<asyncDb, asyncCache, writerPc, writerSnap, writerReturned>>
    /\ UNCHANGED exceptAsync

(* list after its await: every row that was read is cached. *)
ListSetCache ==
    /\ readerPc.at = "list:install"
    /\ asyncCache' = [id \in RegistryIds |->
                        IF readerSnap[id].exists
                        THEN [present |-> TRUE, data |-> WithKeyStatus(id, readerSnap[id])]
                        ELSE asyncCache[id]]
    /\ readerPc' = IdleTask
    /\ readerSnap' = NoSnapshot
    /\ UNCHANGED <<asyncDb, writerPc, writerSnap, writerReturned>>
    /\ UNCHANGED exceptAsync

(* the database executes update's provider.update. *)
UpdateWrite ==
    \E id \in RegistryIds, apiKey \in ApiKeyInputs :
        /\ writerPc = IdleTask
        /\ asyncDb[id].exists
        /\ asyncDb' = [asyncDb EXCEPT ![id] =
                          IF apiKey = Undefined THEN @
                          ELSE [@ EXCEPT !.apiKeyEncrypted = IF apiKey = "" THEN <<>>
                                                            ELSE EncryptApiKey(apiKey),
                                         !.isValidated = FALSE]]
        /\ writerPc' = Task("update:written", id)
        /\ UNCHANGED <<asyncCache, readerPc, readerSnap, writerSnap, writerReturned>>
        /\ UNCHANGED exceptAsync

(* update after its await: invalidateCache(id), then get(id) up to get's   *)
(* own await.                                                              *)
UpdateInvalidate ==
    /\ writerPc.at = "update:written"
    /\ LET id == writerPc.id
           c == GetFromCache(InvalidateCache(asyncCache, id), id, FALSE)
       IN  /\ asyncCache' = c.cache
           /\ writerPc' = Task("update:query", id)
    /\ UNCHANGED <<asyncDb, readerPc, readerSnap, writerSnap, writerReturned>>
    /\ UNCHANGED exceptAsync

(* the database executes the findUnique of update's get. *)
UpdateFindUnique ==
    /\ writerPc.at = "update:query"
    /\ writerSnap' = asyncDb[writerPc.id]
    /\ writerPc' = Task("update:install", writerPc.id)
    /\ UNCHANGED <<asyncDb, asyncCache, readerPc, readerSnap, writerReturned>>
    /\ UNCHANGED exceptAsync

(* update's get after its await: the row is cached and returned. *)
UpdateSetCache ==
    /\ writerPc.at = "update:install"
    /\ LET id == writerPc.id
       IN  /\ asyncCache' = IF writerSnap.exists
                            THEN SetCache(asyncCache, id, WithKeyStatus(id, writerSnap))
                            ELSE asyncCache
           /\ writerReturned' = IF writerSnap.exists
                                THEN ProviderValue(WithKeyStatus(id, writerSnap))
                                ELSE NullValue
    /\ writerPc' = IdleTask
    /\ writerSnap' = NoRow
    /\ UNCHANGED <<asyncDb, readerPc, readerSnap>>
    /\ UNCHANGED exceptAsync

(* the database executes remove's provider.delete. *)
RemoveDelete ==
    \E id \in RegistryIds :
        /\ writerPc = IdleTask
        /\ asyncDb[id].exists
        /\ asyncDb' = [asyncDb EXCEPT ![id] = NoRow]
        /\ writerPc' = Task("remove:deleted", id)
        /\ UNCHANGED <<asyncCache, readerPc, readerSnap, writerSnap, writerReturned>>
        /\ UNCHANGED exceptAsync

(* remove after its await: invalidateCache(id). *)
RemoveInvalidate ==
    /\ writerPc.at = "remove:deleted"
    /\ asyncCache' = InvalidateCache(asyncCache, writerPc.id)
    /\ writerPc' = IdleTask
    /\ UNCHANGED <<asyncDb, readerPc, readerSnap, writerSnap, writerReturned>>
    /\ UNCHANGED exceptAsync

(***************************************************************************)
(* Initial state and the router's specification.                           *)
(***************************************************************************)
Init ==
    /\ pc = "idle"
    /\ fn = "none"
    /\ providerOrder = <<>>
    /\ i = 1
    /\ failoverFrom = Undefined
    /\ previousProvider = Undefined
    /\ lastError = NullError
    /\ errors = <<>>
    /\ usage = <<>>
    /\ calls = <<>>
    /\ result = NoResult
    /\ trackFault = FALSE
    /\ cpc = "idle"
    /\ clsMessage = <<>>
    /\ clsResult = TRUE
    /\ clsResultOllama = TRUE
    /\ dbProviders = [p \in ProviderIds |-> TRUE]
    /\ dbModels = SeededModels
    /\ dbMappings = <<>>
    /\ reqs = NoRequirements
    /\ mappings = <<>>
    /\ rpc = "idle"
    /\ ruleIdx = 1
    /\ results = <<>>
    /\ resolved = <<>>
    /\ regDb = [id \in RegistryIds |-> NoRow]
    /\ regCache = [id \in RegistryIds |-> NoEntry]
    /\ regLast = [op |-> "none", id |-> "", value |-> NoValue, listing |-> {},
                  before |-> {}, prevOp |-> "none"]
    /\ budgetRow = NoBudget
    /\ budgetLog = <<>>
    /\ budgetLast = [currentCost |-> 0, budgetUsd |-> 0]
    /\ aggNow = 1
    /\ aggUsage = {}
    /\ aggMonthly = [key \in MonthlyKeys |-> 0]
    /\ aggPurged = {}
    /\ optInput = <<>>
    /\ optFeature = ""
    /\ optInputAfter = <<>>
    /\ optResult = <<>>
    /\ optResultRouter = <<>>
    /\ asyncDb = [id \in RegistryIds |-> NoRow]
    /\ asyncCache = [id \in RegistryIds |-> NoEntry]
    /\ readerPc = IdleTask
    /\ readerSnap = NoSnapshot
    /\ writerPc = IdleTask
    /\ writerSnap = NoRow
    /\ writerReturned = NoValue
    /\ refusalPc = "idle"
    /\ refusalText = [len |-> 0, ws |-> 0, refusal |-> FALSE, mentions |-> FALSE]
    /\ refusalResult = FALSE
    /\ mapRows = <<>>
    /\ mapTask = [t \in MappingCalls |-> IdleCall]
    /\ checkRow = NoBudget
    /\ checkTask = [t \in CheckCalls |-> IdleCheck]
    /\ checkAlerts = [th \in {80, 100} |-> 0]
    /\ filterPc = "idle"
    /\ filterInput = <<>>
    /\ filterSummary = GetBudgetSummary([period \in BudgetPeriods |-> NoBudget],
                                        [period \in BudgetPeriods |-> 0])
    /\ filterResult = <<>>
    /\ decisionRows = [period \in BudgetPeriods |-> NoBudget]
    /\ decisionCalls = 0
    /\ adapterInstance = NewAdapter
    /\ adapterCalls = 0
    /\ adapterLast = [provider |-> [baseUrl |-> "", apiKeyEncrypted |-> <<>>],
                      model |-> NoModel]
    /\ decisionLast = [before |-> [period \in BudgetPeriods |-> 0],
                       orderedProviders |-> <<>>, budgetWarning |-> NoAlert]

Next ==
    \/ GenerateWithProviderStart
    \/ GenerateWithProviderPinned
    \/ GenerateWithProviderIter
    \/ GenerateWithProviderThrow
    \/ GenerateWithVisionStart
    \/ GenerateWithVisionIter
    \/ GenerateWithVisionThrow
    \/ WithFailoverStart
    \/ WithFailoverIter
    \/ WithFailoverThrow

Spec == Init /\ [][Next]_vars

NextClassify == Classify

SpecClassify == Init /\ [][NextClassify]_vars

NextResolver ==
    \/ CreateOrUpdateMapping
    \/ SetProviderEnabled
    \/ AddModel
    \/ ResolveStart
    \/ ResolveRule
    \/ ResolveFinish

SpecResolver == Init /\ [][NextResolver]_vars

NextRegistry ==
    \/ RegistryRegister
    \/ RegistryUpdate
    \/ RegistryRemove
    \/ RegistryGetAction
    \/ RegistryList
    \/ RegistryValidate
    \/ RegistrySyncModels
    \/ RegistryAddModel
    \/ RegistryUpdateModel
    \/ RegistryRemoveModel

SpecRegistry == Init /\ [][NextRegistry]_vars

NextBudget ==
    \/ CheckBudgetThreshold
    \/ SaveBudgetConfig
    \/ ResetBudgetAlertStatus

SpecBudget == Init /\ [][NextBudget]_vars

NextAggregation ==
    \/ AggregationTrackUsage
    \/ AggregationTick
    \/ AggregateMonthlyUsageAction
    \/ CleanupOldUsageData

SpecAggregation == Init /\ [][NextAggregation]_vars

NextOptimizer == OptimizeCall

SpecOptimizer == Init /\ [][NextOptimizer]_vars

NextRegistryAsync ==
    \/ AsyncRegister
    \/ GetCheckCache
    \/ GetFindUnique
    \/ GetSetCache
    \/ ListFindMany
    \/ ListSetCache
    \/ UpdateWrite
    \/ UpdateInvalidate
    \/ UpdateFindUnique
    \/ UpdateSetCache
    \/ RemoveDelete
    \/ RemoveInvalidate

SpecRegistryAsync == Init /\ [][NextRegistryAsync]_vars

NextStream ==
    \/ StreamWithProviderStart
    \/ StreamWithProviderPinned
    \/ StreamWithProviderIter
    \/ StreamWithProviderThrow
    \/ StreamOnFinish

SpecStream == Init /\ [][NextStream]_vars

NextRefusal == IsRefusalResponseCall

SpecRefusal == Init /\ [][NextRefusal]_vars

NextMappingAsync ==
    \/ MappingFindFirst
    \/ MappingUpdate
    \/ MappingCreate

SpecMappingAsync == Init /\ [][NextMappingAsync]_vars

NextBudgetAsync ==
    \/ CheckSaveBudgetConfig
    \/ CheckFindUnique
    \/ CheckGetCurrentPeriodCost
    \/ CheckUpdateAlertStatus
    \/ CheckResetBudgetAlertStatus

SpecBudgetAsync == Init /\ [][NextBudgetAsync]_vars

NextBudgetFilter == FilterByBudgetCall

SpecBudgetFilter == Init /\ [][NextBudgetFilter]_vars

NextDecision ==
    \/ DecisionSaveBudgetConfig
    \/ GetSmartRoutingDecision

SpecDecision == Init /\ [][NextDecision]_vars

NextAdapter == CreateLanguageModelCall

SpecAdapter == Init /\ [][NextAdapter]_vars

(***************************************************************************)
(* Properties of the routing / failover engine (checked under Spec).       *)
(***************************************************************************)
Done == pc = "done"
InRouter == fn \in {"generateWithProvider", "generateWithVision"}
FailedCalls == SelectSeq(calls, LAMBDA c : c.outcome # "ok")
RefusedAt(k) == k \in 1..Len(calls) /\ calls[k].outcome = "refusal"

(* The error raised accounts for the attempts made: it is the request's   *)
(* own failure, and an aggregate counts exactly the attempts made.         *)
ErrorReflectsAttempts ==
    /\ result.kind = "error"
    /\ result.type \in {"Error", "FailoverError"}
    /\ result.type = "FailoverError" => result.totalAttempts = Len(calls)

\* C1: when an attempt throws an error that isRetryableError classifies as
\* not retryable, no later candidate is attempted and the call ends by
\* raising an error that reflects exactly the attempts made (stated for runs
\* in which every usage-tracking write succeeds).
C1_NonRetryableStopsChain ==
    (Done /\ ~trackFault) =>
        \A k \in 1..Len(calls) :
            (calls[k].outcome = "throw" /\ ~IsRetryableError(calls[k].message)) =>
                /\ k = Len(calls)
                /\ ErrorReflectsAttempts

\* C2: generateWithProvider, three candidates, the first attempt throws a
\* retryable error and the second succeeds (tracking writes succeeding):
\* the result is served by the second candidate with wasFailover = TRUE and
\* failoverFrom = the first candidate's provider, exactly one failed row
\* (first candidate) and one successful row (second) are persisted, and the
\* third candidate is never attempted.
C2_Scenario ==
    /\ fn = "generateWithProvider"
    /\ Len(providerOrder) = 3
    /\ Len(calls) >= 2
    /\ calls[1].idx = 1 /\ calls[1].outcome = "throw"
    /\ IsRetryableError(calls[1].message)
    /\ calls[2].idx = 2 /\ calls[2].outcome = "ok"

C2_FailoverToSecondCandidate ==
    (C2_Scenario /\ ~trackFault) =>
        /\ Done
        /\ result.kind = "result"
        /\ result.index = 2
        /\ result.provider = providerOrder[2].providerType
        /\ result.wasFailover = TRUE
        /\ result.failoverFrom = providerOrder[1].providerType
        /\ Len(calls) = 2
        /\ Len(usage) = 2
        /\ usage[1].success = FALSE /\ usage[1].provider = providerOrder[1].providerType
        /\ usage[2].success = TRUE /\ usage[2].provider = providerOrder[2].providerType

C2_Witness ==
    /\ C2_Scenario /\ ~trackFault /\ Done
    /\ calls[1].message = Msg503
    /\ result.kind = "result" /\ result.index = 2

\* C3: a rejected usage-tracking write never changes the outcome: a
\* candidate whose generation succeeded is the last one attempted and is
\* returned as the result, and the error raised is never the rejected write.
C3_TrackingNeverAltersOutcome ==
    /\ \A k \in 1..Len(calls) :
          calls[k].outcome = "ok" =>
              /\ k = Len(calls)
              /\ Done
              /\ result.kind = "result"
              /\ result.index = calls[k].idx
    /\ result.kind = "error" => result.type # "DbError"

\* C4: in generateWithProvider and generateWithVision a text that
\* isRefusalResponse classifies as a refusal is never returned; the loop
\* moves past that candidate, and when no candidate succeeds the call ends
\* with the exhaustion error.
C4_RefusalNeverReturned ==
    InRouter =>
        /\ result.kind = "result" => ~IsRefusalResponse(result.text)
        /\ \A k \in 1..Len(calls) :
              IsRefusalResponse(calls[k].text) =>
                  /\ i > calls[k].idx
                  /\ ~(Done /\ result.kind = "result" /\ result.index = calls[k].idx)
        /\ ( /\ Done /\ ~trackFault
             /\ \E k \in 1..Len(calls) : IsRefusalResponse(calls[k].text)
             /\ \A k \in 1..Len(calls) : calls[k].outcome # "ok" )
           => (result.kind = "error" /\ result.type \in {"Error", "FailoverError"})

C4_Witness ==
    /\ InRouter /\ Done
    /\ \E k \in 1..Len(calls) :
          /\ calls[k].text = TextRefusal
          /\ result.kind = "result" /\ result.index > calls[k].idx

\* C5: a request that ends without success raises an aggregate with exactly
\* one entry per failed attempt, in attempt order, each naming the provider
\* whose attempt failed and that attempt's error, plus the feature type; its
\* attempt count is the number of attempts made.
C5_AggregateCarriesEveryAttempt ==
    ( /\ Done /\ ~trackFault /\ result.kind = "error"
      /\ Len(calls) >= 1
      /\ \A k \in 1..Len(calls) : calls[k].outcome = "throw" ) =>
        /\ result.type = "FailoverError"
        /\ result.featureType = FeatureType
        /\ result.totalAttempts = Len(calls)
        /\ Len(result.errors) = Len(FailedCalls)
        /\ \A e \in 1..Len(result.errors) :
              /\ result.errors[e].provider = FailedCalls[e].provider
              /\ FailedCalls[e].outcome = "throw" =>
                    result.errors[e].error = FailedCalls[e].message

\* C6: after generateWithProvider or generateWithVision completes, the usage
\* rows written are exactly one per candidate on which a generation call was
\* issued (stated for runs in which every tracking write succeeds).
C6_OneRecordPerAttempt ==
    (Done /\ InRouter /\ ~trackFault) =>
        /\ Len(usage) = Len(calls)
        /\ \A k \in 1..Len(usage) : usage[k].attempt = calls[k].idx

\* C7: in generateWithProvider a candidate that is not ready (disabled, no
\* credential, or a credential that cannot be decrypted) is skipped: no
\* generation call, no usage row, and the loop goes on to the next candidate.
NotReady(cand) ==
    /\ cand.providerType # "ollama"
    /\ \/ ~cand.isEnabled
       \/ cand.apiKeyEncrypted = <<>>
       \/ DecryptApiKey(cand.apiKeyEncrypted).threw

C7_NotReadySkippedUntracked ==
    fn = "generateWithProvider" =>
        \A idx \in 1..Len(providerOrder) :
            NotReady(providerOrder[idx]) =>
                /\ \A k \in 1..Len(calls) : calls[k].idx # idx
                /\ \A k \in 1..Len(usage) : usage[k].attempt # idx
                /\ ~(pc = "exhausted" /\ i = idx)

\* C8 (as stated): on success on a candidate other than the first one
\* attempted, after the earlier attempts failed by throwing, failoverFrom
\* names the provider on which generation was first attempted.
C8_FailoverFromFirstAttempted ==
    ( /\ result.kind = "result" /\ Len(calls) >= 2
      /\ \A k \in 1..(Len(calls) - 1) : calls[k].outcome = "throw" ) =>
        result.failoverFrom = calls[1].provider

\* C8 (amended): a result served by the candidate at list position n > 1
\* reports wasFailover and names as failoverFrom the provider of the
\* candidate at position n - 1, attempted or skipped; a result served by the
\* first list position reports no failover.
C8_FailoverFromPrecedingCandidate ==
    result.kind = "result" =>
        IF result.index > 1
        THEN /\ result.wasFailover = TRUE
             /\ result.failoverFrom = providerOrder[result.index - 1].providerType
        ELSE /\ result.wasFailover = FALSE
             /\ result.failoverFrom = Undefined

C8_Witness ==
    /\ result.kind = "result" /\ result.index = 3 /\ Len(calls) = 3
    /\ fn = "generateWithProvider"
    /\ calls[1].outcome = "throw" /\ calls[2].outcome = "throw"

(***************************************************************************)
(* Properties of the error classification (checked under SpecClassify).    *)
(***************************************************************************)
SameCharIgnoringCase(a, b) ==
    a = b \/ \E k \in 1..Len(UPPER) : {a, b} = {UPPER[k], LOWER[k]}

ContainsIgnoringCase(s, sub) ==
    \E k \in 0..(Len(s) - Len(sub)) :
        \A j \in 1..Len(sub) : SameCharIgnoringCase(s[k + j], sub[j])

RetryableIndicators ==
    { RATE_LIMIT, C429, C503, SERVICE_UNAVAILABLE, NETWORK, TIMEOUT, ECONNREFUSED,
      ENOTFOUND, FETCH_FAILED, C500, C502, C504 }
ClientErrorIndicators == { C400, C401, C403 }

HasRetryableIndicator(m) == \E r \in RetryableIndicators : ContainsIgnoringCase(m, r)
HasClientErrorIndicator(m) == \E c \in ClientErrorIndicators : ContainsIgnoringCase(m, c)

\* C9: isRetryableError returns false exactly when the message contains, in
\* any letter case, '400', '401' or '403' and none of the retryable
\* indicators; every other message is retryable, a retryable indicator
\* taking precedence over a client-error indicator in the same message.
C9_NotRetryableExactlyForClientErrors ==
    cpc = "done" =>
        /\ (clsResult = FALSE) <=>
              (HasClientErrorIndicator(clsMessage) /\ ~HasRetryableIndicator(clsMessage))
        /\ (clsResultOllama = FALSE) <=>
              (HasClientErrorIndicator(clsMessage) /\ ~HasRetryableIndicator(clsMessage))

C9_Witness ==
    /\ cpc = "done"
    /\ clsMessage = C401 \o FragRateLimit
    /\ clsResult = TRUE

(***************************************************************************)
(* Properties of the feature resolver (checked under SpecResolver).        *)
(***************************************************************************)
\* C10: every candidate returned by resolveWithFallback (and so by resolve)
\* belongs to a provider whose enabled flag is true in the record the
\* resolution read, whether an auto_tag rule or a specific_model rule
\* contributed it, from the joined record or from a fresh lookup.
C10_CandidatesOfEnabledProviders ==
    rpc = "done" =>
        /\ \A k \in 1..Len(resolved) : resolved[k].provider.isEnabled = TRUE
        /\ \A k \in 1..Len(Resolve) : Resolve[k].provider.isEnabled = TRUE

\* C11: the list resolveWithFallback returns is in descending priority of
\* the contributing rule; among the candidates of one rule no ':free' model
\* precedes a model without the marker, and inside each of the two groups
\* the context windows (a missing one counting as zero) do not increase.
C11_OrderedByPriorityThenQuality ==
    rpc = "done" =>
        \A a \in 1..Len(resolved) : \A b \in (a + 1)..Len(resolved) :
            /\ resolved[a].priority >= resolved[b].priority
            /\ resolved[a].priority = resolved[b].priority =>
                  /\ ~(IsFree(resolved[a].model) /\ ~IsFree(resolved[b].model))
                  /\ IsFree(resolved[a].model) = IsFree(resolved[b].model) =>
                        resolved[a].model.contextWindow >= resolved[b].model.contextWindow

C11_Witness ==
    /\ rpc = "done" /\ Len(resolved) >= 4
    /\ \E a, b, c \in 1..Len(resolved) :
          /\ a < b /\ b < c
          /\ resolved[a].priority = resolved[b].priority
          /\ ~IsFree(resolved[a].model) /\ IsFree(resolved[b].model)
          /\ resolved[a].model.contextWindow < resolved[b].model.contextWindow
          /\ resolved[c].priority < resolved[b].priority

ResultKey(r) == <<r.provider.id, r.model.id>>
FirstOccurrences ==
    {k \in 1..Len(results) : \A j \in 1..(k - 1) : ResultKey(results[j]) # ResultKey(results[k])}

\* C12: in the returned list each (provider id, model id) pair appears at most
\* once; the list is the priority-ordered concatenation of the rules'
\* candidates reduced to the first occurrence of each pair, in the same
\* relative order, so a pair carries the priority and fallback mode of the
\* highest-priority rule that produced it.
C12_DeduplicatedAtFirstOccurrence ==
    rpc = "done" =>
        /\ \A a, b \in 1..Len(resolved) :
              ResultKey(resolved[a]) = ResultKey(resolved[b]) => a = b
        /\ Len(resolved) = Cardinality(FirstOccurrences)
        /\ \A k \in FirstOccurrences :
              resolved[Cardinality({j \in FirstOccurrences : j <= k})] = results[k]
        /\ \A a \in 1..Len(resolved) : \A k \in 1..Len(results) :
              ResultKey(results[k]) = ResultKey(resolved[a]) =>
                  resolved[a].priority >= results[k].priority

C12_Witness ==
    /\ rpc = "done"
    /\ Len(resolved) >= 2
    /\ \E j, k \in 1..Len(results) :
          /\ j < k
          /\ ResultKey(results[j]) = ResultKey(results[k])
          /\ results[j].priority > results[k].priority
          /\ results[j].fallbackMode # results[k].fallbackMode
          /\ k < Len(results)

\* C13: once a rule with fallbackMode 'fail' has been evaluated, no rule of
\* lower priority contributes a candidate, whether or not the fail-mode rule
\* produced any: a fail-mode rule that matches nothing above a rule that
\* would match yields the empty list.
C13_FailModeHaltsLowerRules ==
    rpc = "done" =>
        \A k \in 1..Len(mappings) :
            mappings[k].fallbackMode = "fail" =>
                /\ \A r \in 1..Len(results) : results[r].priority >= mappings[k].priority
                /\ \A r \in 1..Len(resolved) : resolved[r].priority >= mappings[k].priority

C13_Witness ==
    /\ rpc = "done"
    /\ Len(mappings) = 2
    /\ mappings[1].fallbackMode = "fail"
    /\ mappings[1].matchMode = "specific_model" /\ ~mappings[1].specificModel.present
    /\ mappings[2].matchMode = "auto_tag" /\ mappings[2].requiredTags = {}
    /\ reqs = NoRequirements
    /\ \A pid \in ProviderIds : dbProviders[pid]
    /\ resolved = <<>>

(***************************************************************************)
(* Properties of the provider registry (checked under SpecRegistry).       *)
(***************************************************************************)
RegistryMutations ==
    {"register", "update", "remove", "addModel", "updateModel", "removeModel",
     "validate", "syncModels"}

ReflectsStore(value, id) ==
    IF regDb[id].exists
    THEN /\ value.kind = "provider"
         /\ value.data.id = id
         /\ value.data.models = regDb[id].models
         /\ value.data.isValidated = regDb[id].isValidated
         /\ value.data.hasApiKey = (regDb[id].apiKeyEncrypted # <<>>)
    ELSE value = NullValue

\* C14: with operations running one at a time, get(id) returns the provider
\* and its models as currently stored (null when the provider is gone), never
\* a cached copy older than the last mutation; the provider returned by
\* register and update is read the same way.
C14_GetReturnsStoredState ==
    /\ regLast.op \in {"get", "register", "update"} => ReflectsStore(regLast.value, regLast.id)
    /\ \A id \in RegistryIds :
          regCache[id].present => ReflectsStore(ProviderValue(regCache[id].data), id)

C14_Witness ==
    /\ regLast.op = "get"
    /\ regLast.prevOp = "validate"
    /\ regLast.value.kind = "provider"
    /\ regLast.value.data.isValidated = TRUE
    /\ Cardinality(regLast.value.data.models) = 2

\* C15: every entry of the registry's cache carries hasApiKey equal to
\* 'a credential is stored for the provider' and holds no encrypted
\* credential.
C15_CacheEntryHidesCredential ==
    \A id \in RegistryIds :
        regCache[id].present =>
            /\ regCache[id].data.hasApiKey = (regDb[id].apiKeyEncrypted # <<>>)
            /\ regCache[id].data.apiKeyEncrypted = <<>>

\* C16: for an existing provider neither validate nor syncModels lets an
\* adapter-level exception reach the caller.
C16_AdapterFailuresNeverPropagate ==
    regLast.op \in {"validate", "syncModels"} =>
        ~(regLast.value.kind = "threw" /\ regLast.value.level = "adapter")

\* C17: after a sync that returned, with vendor listing V and previously
\* stored models E: for V non-empty the stored modelIds are V plus those of
\* the isDefault models of E; for V empty the stored set is E; no isDefault
\* model of E is gone; syncing again with the same V changes nothing.
C17_SyncKeepsListedAndDefault ==
    (regLast.op = "syncModels" /\ regLast.value.kind = "models") =>
        LET V == regLast.listing
            E == regLast.before
            S == regDb[regLast.id].models
        IN  /\ V # {} => ModelIdsOf(S) = V \cup {m.modelId : m \in {e \in E : e.isDefault}}
            /\ V = {} => S = E
            /\ \A e \in E : e.isDefault => e \in S
            /\ SyncModelSet(S, V) = S
            /\ regLast.value.models = S

C17_Witness ==
    /\ regLast.op = "syncModels" /\ regLast.value.kind = "models"
    /\ regLast.listing = {2}
    /\ regLast.before = {ModelRec(1, TRUE)}
    /\ regDb[regLast.id].models = {ModelRec(1, TRUE), ModelRec(2, FALSE)}

(***************************************************************************)
(* Properties of the budget alerts (checked under SpecBudget).             *)
(***************************************************************************)
AlertsAt(threshold) == {k \in 1..Len(budgetLog) : budgetLog[k].alert = threshold}

\* C18: over the checks made since the last reset, whatever the usage levels
\* and budget settings, the 80% alert is returned at most once and the 100%
\* alert at most once, no 80% alert follows the recording of threshold 100,
\* and the recorded threshold only moves none -> 80 -> 100 or none -> 100,
\* nothing but a reset bringing it back to none.
C18_AlertsOncePerThreshold ==
    /\ Cardinality(AlertsAt(80)) <= 1
    /\ Cardinality(AlertsAt(100)) <= 1
    /\ \A j, k \in 1..Len(budgetLog) :
          (j < k /\ budgetLog[j].after = 100) => budgetLog[k].alert # 80
    /\ \A k \in 1..Len(budgetLog) :
          /\ <<budgetLog[k].before, budgetLog[k].after>> \in
                {<<0, 0>>, <<80, 80>>, <<100, 100>>, <<0, 80>>, <<0, 100>>, <<80, 100>>}
          /\ k > 1 => budgetLog[k].before = budgetLog[k - 1].after
    /\ budgetLog # <<>> => budgetRow.lastAlertThreshold = budgetLog[Len(budgetLog)].after

C18_Witness ==
    /\ Len(budgetLog) = 3
    /\ budgetLog[1].alert = 80
    /\ budgetLog[2].alert = 100
    /\ budgetLog[3].alert = 0
    /\ budgetLast = [currentCost |-> 9, budgetUsd |-> 10]
    /\ budgetRow.alertAt80 /\ budgetRow.alertAt100

(***************************************************************************)
(* Properties of the usage aggregation (checked under SpecAggregation).    *)
(***************************************************************************)
\* C19: every raw usage row cleanupOldUsageData deleted had, at the moment of
\* deletion, a monthly aggregate row for its month, provider and feature
\* type whose totals counted it, whatever its provider and feature type and
\* also when the month had been aggregated before the row was written.
C19_PurgedRowsWereAggregated ==
    \A r \in aggPurged : r.counted

(***************************************************************************)
(* Properties of optimizeProviderOrder (checked under SpecOptimizer).      *)
(***************************************************************************)
PositionIn(seq, p) == CHOOSE k \in 1..Len(seq) : seq[k] = p
Elements(seq) == {seq[k] : k \in 1..Len(seq)}

SortedByScoreKeepingTies(out, in) ==
    \A a, b \in 1..Len(out) :
        a < b =>
            /\ GetCostScore(out[a]) <= GetCostScore(out[b])
            /\ GetCostScore(out[a]) = GetCostScore(out[b]) =>
                  PositionIn(in, out[a]) < PositionIn(in, out[b])

ExpectedProviders(in, featureType) ==
    IF featureType \in VISION_FEATURES
    THEN {p \in Elements(in) : p \in SupportsVision}
    ELSE Elements(in)

\* C20: for a non-vision feature optimizeProviderOrder returns a permutation
\* of the given providers in non-decreasing score inputRate + 2*outputRate;
\* for a vision feature it returns exactly the vision-capable providers of
\* the input, sorted the same way; equal scores keep their input order and
\* the input list is not modified.
C20_CostOrderOfCapableProviders ==
    optFeature # "" =>
        /\ Elements(optResult) = ExpectedProviders(optInput, optFeature)
        /\ Len(optResult) = Cardinality(Elements(optResult))
        /\ SortedByScoreKeepingTies(optResult, optInput)
        /\ optResultRouter = optResult
        /\ optInputAfter = optInput

(***************************************************************************)
(* Properties of the registry under concurrent tasks (SpecRegistryAsync).  *)
(***************************************************************************)
Quiescent == readerPc = IdleTask /\ writerPc = IdleTask

(* C21: once a read (get or list) and a concurrent mutation of the same    *)
(* provider have both completed, the cache holds no entry for the provider *)
(* that is older than the mutation: an entry present equals the stored     *)
(* row, and no entry is present for a removed provider.                    *)
C21_NoStaleEntryAfterConcurrentRead ==
    Quiescent =>
        \A id \in RegistryIds :
            asyncCache[id].present =>
                /\ asyncDb[id].exists
                /\ asyncCache[id].data = WithKeyStatus(id, asyncDb[id])

(***************************************************************************)
(* Properties of streamWithProvider (checked under SpecStream).            *)
(***************************************************************************)

(* C22: in streamWithProvider an error thrown while starting a candidate's *)
(* stream is recorded as a failed usage row of that candidate, and an      *)
(* error that isRetryableError classifies as not retryable ends the loop:  *)
(* no later candidate is started and no stream is returned.                *)
C22_StreamStartErrorsHandledAsInGenerate ==
    fn = "streamWithProvider" =>
        \A k \in 1..Len(calls) :
            calls[k].outcome = "throw" =>
                /\ \E u \in 1..Len(usage) :
                      ~usage[u].success /\ usage[u].attempt = calls[k].idx
                /\ ~IsRetryableError(calls[k].message) =>
                      k = Len(calls) /\ result.kind # "stream"

(***************************************************************************)
(* Further properties of the feature resolver (checked under SpecResolver).*)
(***************************************************************************)
SatisfiesRequirements(c, requirements) ==
    /\ requirements.needsVision => c.model.supportsVision
    /\ requirements.needsTools => c.model.supportsTools
    /\ requirements.preferredCost # "" => c.provider.costTier = requirements.preferredCost
    /\ requirements.preferredQuality # "" =>
           c.provider.qualityTier = requirements.preferredQuality
    /\ requirements.minContextWindow # 0 =>
           /\ c.model.contextWindow # 0
           /\ c.model.contextWindow >= requirements.minContextWindow

(* C23: every candidate returned by resolveWithFallback satisfies every    *)
(* requirement of the call (vision, tools, cost tier, quality tier, a      *)
(* known context window of at least the minimum), whichever kind of rule   *)
(* contributed it.                                                         *)
C23_CandidatesSatisfyRequirements ==
    rpc = "done" =>
        \A k \in 1..Len(resolved) : SatisfiesRequirements(resolved[k], reqs)

(***************************************************************************)
(* Properties of isRefusalResponse (checked under SpecRefusal).            *)
(***************************************************************************)
TrimmedLength == refusalText.len - refusalText.ws

(* C24, as stated: isRefusalResponse(text) is true exactly when the        *)
(* trimmed text is shorter than 500 characters and a refusal pattern       *)
(* matches at its start.                                                   *)
C24_RefusalExactlyBelowLimit ==
    refusalPc = "done" =>
        (refusalResult <=> (TrimmedLength < 500 /\ refusalText.refusal))

(* C24, amended: isRefusalResponse(text) is true exactly when the trimmed  *)
(* text is at most 500 characters long and a refusal pattern matches at    *)
(* its start; a text whose trimmed length exceeds 500 characters is never  *)
(* classified as a refusal, whatever it contains.                          *)
C24_RefusalExactlyUpToLimit ==
    refusalPc = "done" =>
        /\ refusalResult <=> (TrimmedLength <= 500 /\ refusalText.refusal)
        /\ TrimmedLength > 500 => ~refusalResult

C24_Witness ==
    /\ refusalPc = "done"
    /\ TrimmedLength = 500
    /\ refusalText.ws > 0
    /\ refusalText.refusal
    /\ refusalResult

(***************************************************************************)
(* Further properties of the provider registry (checked under SpecRegistry)*)
(***************************************************************************)
DefaultModels(id) == {m \in regDb[id].models : m.isDefault}

(* C25: after any sequence of register, addModel, updateModel, removeModel *)
(* and syncModels calls every provider has at most one model flagged       *)
(* isDefault.                                                              *)
C25_AtMostOneDefaultModel ==
    \A id \in RegistryIds : Cardinality(DefaultModels(id)) <= 1

(***************************************************************************)
(* Properties of concurrent createOrUpdateMapping (SpecMappingAsync).      *)
(***************************************************************************)

(* C26: after any number of createOrUpdateMapping calls, also when the     *)
(* lookups and writes of calls for the same (featureType, priority)        *)
(* interleave, there is at most one mapping row per (featureType,          *)
(* priority).                                                              *)
C26_OneRowPerFeatureAndPriority ==
    \A j, k \in 1..Len(mapRows) : mapRows[j].priority = mapRows[k].priority => j = k

(***************************************************************************)
(* Properties of concurrent checkBudgetThreshold (SpecBudgetAsync).        *)
(***************************************************************************)

(* C27: when several checkBudgetThreshold calls for the same period run    *)
(* concurrently, each threshold's alert (80 or 100) is returned by at most *)
(* one of them between two resets.                                         *)
C27_ConcurrentChecksAlertOnce ==
    /\ checkAlerts[80] <= 1
    /\ checkAlerts[100] <= 1

(***************************************************************************)
(* Properties of filterByBudget (checked under SpecBudgetFilter).          *)
(***************************************************************************)
BudgetExceeded ==
    \A period \in BudgetPeriods :
        /\ filterSummary[period].budget > 0
        /\ filterSummary[period].currentCost > filterSummary[period].budget

(* C28: for every list of enabled providers, when the budget is exceeded   *)
(* (every period has a budget and has spent more than it) every provider   *)
(* in the list filterByBudget returns is free, input rate 0 and output    *)
(* rate 0; when the budget is not exceeded the list is returned unchanged. *)
C28_OverBudgetOnlyFreeProviders ==
    filterPc = "done" =>
        IF BudgetExceeded
        THEN \A k \in 1..Len(filterResult) :
                /\ COST_PER_MILLION_TOKENS[filterResult[k]].input = 0
                /\ COST_PER_MILLION_TOKENS[filterResult[k]].output = 0
        ELSE filterResult = filterInput

(***************************************************************************)
(* Properties of getSmartRoutingDecision (checked under SpecDecision).     *)
(***************************************************************************)
(* the periods whose lastAlertThreshold the last call updated. *)
MarkedAsSent ==
    {period \in BudgetPeriods :
        decisionRows[period].lastAlertThreshold # decisionLast.before[period]}

(* C29: every budget alert whose threshold a getSmartRoutingDecision call  *)
(* records as sent is delivered in that call's result, also when two or    *)
(* three periods cross a threshold in the same call.                       *)
C29_RecordedAlertsAreReturned ==
    decisionCalls > 0 =>
        \A period \in MarkedAsSent :
            decisionLast.budgetWarning =
                BudgetAlert(period, decisionRows[period].lastAlertThreshold)

(***************************************************************************)
(* Properties of createLanguageModel (checked under SpecAdapter).          *)
(***************************************************************************)

(* C30: the base URL and the credential of the model createLanguageModel   *)
(* builds depend only on the candidate's own provider record: its own base *)
(* URL or else the vendor default, its own credential or else none,        *)
(* whatever providers of the same adapter type were used before.           *)
C30_ModelConfigFromOwnRecord ==
    adapterLast.model.kind \in {"custom", "default"} =>
        /\ adapterLast.model.baseURL =
              IF adapterLast.provider.baseUrl # "" THEN adapterLast.provider.baseUrl
              ELSE "https://api.openai.com/v1"
        /\ adapterLast.model.apiKey =
              IF adapterLast.provider.apiKeyEncrypted = KeyOfA THEN "sk-a"
              ELSE IF adapterLast.provider.apiKeyEncrypted = KeyOfB THEN "sk-b"
              ELSE ""
====
